---- MODULE Spec2Model ----
(***************************************************************************)
(* The render-capture jobs of QuickScribe-AI's video service:              *)
(* burnSubtitles, trimVideo and convertVideo.  One behaviour is one job:   *)
(* the inputs are drawn in Init, every event handler of the job is one     *)
(* action, and the platform (source element, display scheduler, encoder,   *)
(* timers) delivers the events.                                            *)
(*                                                                         *)
(* Times are whole ticks, TimeScale of them to a time unit; durations and   *)
(* trim offsets are whole units, and playback passes through the instants  *)
(* at, and one tick before, every unit.  A progress value p is kept        *)
(* exactly, as the fraction <<n, d>> (d > 0) with p = n / d.               *)
(*                                                                         *)
(* The synchronous functions of the audio and subtitle tools               *)
(* (audioBufferToWav, audioBufferToMp3, the peak envelope, handleMerge,    *)
(* the active-cue lookup, drawSubtitleText) are followed in ToolSpec: one  *)
(* behaviour is one call of one function on one of its inputs; the time    *)
(* shifts and the SRT round trip are followed there too.  The components   *)
(* of the user interface (VideoTrimmerTool, the playback, waveform and      *)
(* selection of AudioTrimmerTool, WaveformTimeline) and the attempts of     *)
(* generateSubtitlesFromVideo are followed in UiSpec: one behaviour is one  *)
(* mounted component and the handlers that run on it.                      *)
(***************************************************************************)
EXTENDS Integers, Sequences, FiniteSets, TLC

\* ------------------------------------------------------------------ bounds
MaxDuration == 2
MaxPauses == 1
TimeScale == 100

MaxExtraSeeks == 1

\* ------------------------------------------------------- program constants
ProgressCap == 99
ProgressDone == 100

\* ---------------------------------------------------------- candidate lists
BurnCandidates ==
    << "video/mp4",
       "video/mp4;codecs=avc1",
       "video/mp4;codecs=\"avc1.42E01E, mp4a.40.2\"",
       "video/mp4;codecs=\"avc1.4d002a, mp4a.40.2\"",
       "video/mp4;codecs=\"avc1.64001f, mp4a.40.2\"",
       "video/mp4;codecs=h264",
       "video/webm;codecs=h264",
       "video/webm;codecs=vp9",
       "video/webm" >>

TrimCandidates ==
    << "video/mp4;codecs=avc1",
       "video/mp4",
       "video/webm;codecs=h264",
       "video/webm" >>

TrimFallback == "video/webm"

AudioCandidates == << "audio/webm;codecs=opus", "audio/webm", "audio/mp4" >>

Mp4Candidates ==
    << "video/mp4;codecs=avc1",
       "video/mp4;codecs=\"avc1.42E01E, mp4a.40.2\"",
       "video/mp4" >>

WebmCandidates == << "video/webm;codecs=vp9", "video/webm;codecs=h264", "video/webm" >>

Mp4Compatible == { "mp4", "m4v", "mov", "qt", "3gp", "moov" }

AudioOnlyFormats == { "weba", "mpa" }

\* The target extensions a convert job is started with: those of the jobs that
\* are run to their end, and those of the jobs whose negotiation is examined.
Targets == { "mp4", "avi", "weba", "WEBA", "mpa" }

AnyTargets ==
    { "mp4", "MP4", "m4v", "mov", "qt", "3gp", "moov", "webm", "avi", "vob",
      "weba", "WEBA", "Weba", "mpa", "MPA" }

\* String.prototype.toLowerCase / toUpperCase on the target extensions.
ToLowerCase(s) ==
    CASE s = "MP4" -> "mp4"
      [] s \in { "WEBA", "Weba" } -> "weba"
      [] s = "MPA" -> "mpa"
      [] OTHER -> s

ToUpperCase(s) ==
    CASE s = "mp4" -> "MP4"
      [] s = "m4v" -> "M4V"
      [] s = "mov" -> "MOV"
      [] s = "qt" -> "QT"
      [] s = "3gp" -> "3GP"
      [] s = "moov" -> "MOOV"
      [] s = "webm" -> "WEBM"
      [] s = "vob" -> "VOB"
      [] s = "avi" -> "AVI"
      [] s \in { "weba", "Weba" } -> "WEBA"
      [] s = "mpa" -> "MPA"
      [] OTHER -> s

Range(seq) == { seq[i] : i \in 1..Len(seq) }

\* Array.prototype.find over a candidate list with MediaRecorder.isTypeSupported:
\* the candidates are tried from the front, "" stands for undefined || ''.
RECURSIVE FindFrom(_, _, _)
FindFrom(list, sup, i) ==
    IF i > Len(list) THEN ""
    ELSE IF list[i] \in sup THEN list[i]
    ELSE FindFrom(list, sup, i + 1)

\* Faulty variant of Find, for C5: the last supported candidate, not the first.
FindLast(list, sup) ==
    LET hits == { i \in 1..Len(list) : list[i] \in sup }
    IN  IF hits = {} THEN ""
        ELSE list[CHOOSE i \in hits : \A j \in hits : j <= i]

Find(list, sup) == FindFrom(list, sup, 1)

\* Faulty variant of IsAudioOnly, for C16: the extension is not lower-cased.
IsAudioOnlyCaseSensitive(target) == target \in AudioOnlyFormats

IsAudioOnly(target) == ToLowerCase(target) \in AudioOnlyFormats

\* Faulty variant of ConvertSelect, for C25: no webm ladder after an mp4 family
\* target found no mp4 candidate.
ConvertSelectNoFallback(target, sup) ==
    IF IsAudioOnly(target) THEN Find(AudioCandidates, sup)
    ELSE IF target \in Mp4Compatible THEN Find(Mp4Candidates, sup)
    ELSE Find(WebmCandidates, sup)

\* convertVideo's choice of the output MIME type.
ConvertSelect(target, sup) ==
    IF IsAudioOnly(target) THEN Find(AudioCandidates, sup)
    ELSE LET mp4 == IF target \in Mp4Compatible THEN Find(Mp4Candidates, sup) ELSE ""
         IN  IF mp4 = "" THEN Find(WebmCandidates, sup) ELSE mp4

\* The MIME strings a job of the kind asks the host about.
Queried(k, target) ==
    CASE k = "burn" -> Range(BurnCandidates)
      [] k = "trim" -> Range(TrimCandidates)
      [] OTHER -> IF IsAudioOnly(target) THEN Range(AudioCandidates)
                  ELSE Range(Mp4Candidates) \cup Range(WebmCandidates)

\* ------------------------------------------------------------------- state
VARIABLES
    kind, supported, ctxOk, startTime, endTime, targetFormat,
    video, interrupted, pauses, canvas, drawn, stream,
    selectedMimeType, ctorMime, recorder, starts, encoderFailed, threw, chunks,
    promise, error, blob, pending, released,
    progressLog, calls, frameTime, seekDone

inputs == << kind, supported, ctxOk, startTime, endTime, targetFormat >>

jobVars == << kind, supported, ctxOk, startTime, endTime, targetFormat,
              video, interrupted, pauses, canvas, drawn, stream,
              selectedMimeType, ctorMime, recorder, starts, encoderFailed, threw, chunks,
              promise, error, blob, pending, released,
              progressLog, calls, frameTime, seekDone >>

\* The state of one call of a synchronous function of the audio and subtitle
\* tools: which function (tool), its AudioBuffer argument (buffer) and its
\* result.
VARIABLES tool, buffer, wav, mp3, peaks, merge, lookup, wrap

\* The subtitle time functions and the components of the user interface.
VARIABLES shift, srt, trimmer, player, waveform, selection, request

cueVars == << shift, srt >>

uiVars == << trimmer, player, waveform, selection, request >>

toolVars == << tool, buffer, wav, mp3, peaks, merge, lookup, wrap, cueVars, uiVars >>

vars == << jobVars, toolVars >>

NoBuffer == [numberOfChannels |-> 0, length |-> 0, seed |-> 0]
NoWav == [size |-> 0]
NoMp3 == [i |-> 0, blocks |-> << >>, returned |-> << >>, mp3Data |-> << >>,
          flushes |-> 0, done |-> FALSE]
NoPeaks == << >>
NoMerge == [tracks |-> << >>, deviceRate |-> 0, length |-> 0, startTimes |-> << >>,
            error |-> "", done |-> FALSE]
NoLookup == [subtitles |-> << >>, currentTime |-> 0, activeSubtitle |-> 0, done |-> FALSE]
NoWrap == [words |-> << >>, width |-> 0, lines |-> << >>, done |-> FALSE]
NoShift == [subtitles |-> << >>, shifted |-> << >>, shifts |-> 0, autoSyncMsg |-> ""]
NoSrt == [subtitles |-> << >>, content |-> << >>, parsed |-> << >>, stage |-> "idle"]

\* VideoTrimmerTool as mounted: no file, no result, no job. A File object is
\* named by the number of the selection that created it, 0 is null.
NoTrimmer == [file |-> 0, selections |-> 0, endTime |-> 0, trimmedBlob |-> 0,
              isProcessing |-> FALSE, job |-> 0, error |-> FALSE]
\* AudioTrimmerTool playback as mounted. A source node is named by its place
\* in nodes, 0 is null; raf names the node whose animation loop is requested.
NoPlayer == [isPlaying |-> FALSE, nodes |-> << >>, sourceNode |-> 0, raf |-> 0,
             currentTime |-> 0]
\* The waveform state of AudioTrimmerTool and of WaveformTimeline after the
\* first render: ref is the audioBuffer (the file prop) and dep the value the
\* peaks effect last ran with, 0 is null; waveformPeaks names the reference the
\* cached envelope was computed from; computed counts the computations per
\* reference; view stands for play head, selection, hover and width.
NoWaveform == [ref |-> 0, loads |-> 0, dep |-> 0, waveformPeaks |-> 0,
               computed |-> << >>, decoding |-> {}, view |-> 0]
\* The selection of AudioTrimmerTool as mounted, times in tenths of a second;
\* duration 0 stands for no audioBuffer.
NoSelection == [duration |-> 0, sampleRate |-> 0, startTime |-> 0, endTime |-> 0,
                dragTarget |-> "none", frameCount |-> 0, error |-> ""]
\* generateSubtitlesFromVideo before its first attempt.
NoError500 == [origin |-> "none", status |-> 0, has500 |-> FALSE, network |-> FALSE]
NoRequest == [attempt |-> 0, requests |-> 0, state |-> "idle",
              lastError |-> NoError500, retried |-> NoError500, result |-> ""]

\* No component of the user interface is mounted.
UiIdle ==
    /\ trimmer = NoTrimmer
    /\ player = NoPlayer
    /\ waveform = NoWaveform
    /\ selection = NoSelection
    /\ request = NoRequest

\* No tool function is called while a render-capture job is followed.
ToolsIdle ==
    /\ tool = "none"
    /\ buffer = NoBuffer
    /\ wav = NoWav
    /\ mp3 = NoMp3
    /\ peaks = NoPeaks
    /\ merge = NoMerge
    /\ lookup = NoLookup
    /\ wrap = NoWrap
    /\ shift = NoShift
    /\ srt = NoSrt
    /\ UiIdle

NoError == [message |-> "", target |-> ""]
NoBlob == [type |-> "", parts |-> 0]

\* The state right after the Promise executor of the job has run: the video
\* element and the audio context exist, the source is loading.
Created(targets) ==
    /\ kind \in { "burn", "trim", "convert" }
    /\ targetFormat \in (IF kind = "convert" THEN targets ELSE { "" })
    /\ ctxOk \in BOOLEAN
    /\ \E d \in 1..MaxDuration :
          video = [duration |-> d * TimeScale, currentTime |-> 0, loaded |-> FALSE,
                   paused |-> TRUE, ended |-> FALSE, seeking |-> FALSE, error |-> FALSE]
    /\ startTime \in (IF kind = "trim"
                      THEN { k * TimeScale : k \in -1..MaxDuration } ELSE { 0 })
    /\ endTime \in (IF kind = "trim"
                    THEN { k * TimeScale : k \in 0..(MaxDuration + 1) }
                    ELSE { video.duration })
    /\ interrupted = FALSE
    /\ pauses = 0
    /\ canvas = FALSE
    /\ drawn = {}
    /\ stream = "none"
    /\ selectedMimeType = ""
    /\ ctorMime = ""
    /\ recorder = "none"
    /\ starts = 0
    /\ encoderFailed = FALSE
    /\ threw = FALSE
    /\ chunks = 0
    /\ promise = "pending"
    /\ error = NoError
    /\ blob = NoBlob
    /\ pending = { "loadedmetadata" }
    /\ released = 0
    /\ progressLog = << >>
    /\ calls = << >>
    /\ frameTime = -1
    /\ seekDone = FALSE

\* Hosts that support nothing, exactly one, or all of the types asked about.
HostProfiles(types) == { {} } \cup { { t } : t \in types } \cup { types }

\* A job on one of the host profiles.
Init ==
    /\ Created(Targets)
    /\ ToolsIdle
    /\ supported \in HostProfiles(Queried(kind, targetFormat))

\* A job on any host: every capability function over the types asked about.
InitAnyHost ==
    /\ Created(AnyTargets)
    /\ ToolsIdle
    /\ supported \in SUBSET Queried(kind, targetFormat)

\* ------------------------------------------------------- promise settlement
\* resolve / reject of the job's Promise: only the first call settles it.
Reject(message, target) ==
    /\ promise' = IF promise = "pending" THEN "rejected" ELSE promise
    /\ error' = IF promise = "pending"
                THEN [message |-> message, target |-> target] ELSE error
    /\ blob' = blob

Resolve(b) ==
    /\ promise' = IF promise = "pending" THEN "fulfilled" ELSE promise
    /\ blob' = IF promise = "pending" THEN b ELSE blob
    /\ error' = error

NoSettle == UNCHANGED << promise, error, blob >>

\* ---------------------------------------------------------------- progress
\* Math.min(n / d * 100, 99) as an exact fraction (d > 0).
\* Faulty variant of CapProgress, for C6: the cap at 99 is left out.
CapProgressUncapped(n, d) == << 100 * n, d >>

CapProgress(n, d) ==
    IF 100 * n >= ProgressCap * d THEN << ProgressCap, 1 >> ELSE << 100 * n, d >>

Leq(p, q) == p[1] * q[2] <= q[1] * p[2]

\* ------------------------------------------------- video.onloadedmetadata
\* burnSubtitles: frame buffer, audio graph, negotiation, encoder, start.
BurnLoadedMetadata ==
    /\ UNCHANGED toolVars
    /\ kind = "burn"
    /\ "loadedmetadata" \in pending
    /\ canvas' = TRUE
    /\ IF ~ctxOk
       THEN /\ Reject("Could not get canvas context", "")
            /\ pending' = pending \ { "loadedmetadata" }
            /\ calls' = << "createCanvas", "reject" >>
            /\ video' = [video EXCEPT !.loaded = TRUE]
            /\ UNCHANGED << stream, selectedMimeType, ctorMime, recorder, starts >>
       ELSE LET sel == Find(BurnCandidates, supported)
            IN  /\ stream' = "canvas+audio"
                /\ selectedMimeType' = sel
                /\ IF sel = ""
                   THEN /\ Reject("No supported video mime type found for recording.", "")
                        /\ pending' = pending \ { "loadedmetadata" }
                        /\ calls' = << "createCanvas", "captureStream", "reject" >>
                        /\ video' = [video EXCEPT !.loaded = TRUE]
                        /\ UNCHANGED << ctorMime, recorder, starts >>
                   ELSE /\ ctorMime' = sel
                        /\ recorder' = "recording"
                        /\ starts' = starts + 1
                        /\ video' = [video EXCEPT !.currentTime = 0, !.loaded = TRUE]
                        /\ pending' = (pending \ { "loadedmetadata" }) \cup { "play" }
                        /\ calls' = << "createCanvas", "captureStream", "newMediaRecorder",
                                       "start", "play" >>
                        /\ NoSettle
    /\ UNCHANGED << inputs, interrupted, pauses, drawn, encoderFailed, threw, chunks,
                    released, progressLog, frameTime, seekDone >>

\* Faulty variant of InvalidRange, for C10: the end offset is not held against
\* the duration.
InvalidRangeNoDuration(s, e, d) == s >= e \/ s < 0

\* trimVideo's range check.
InvalidRange(s, e, d) == s >= e \/ s < 0 \/ e > d

\* Faulty variant of TrimSeekToStart, for C9: the encoder is started with the
\* seek, as burnSubtitles starts its own, not at the seek's completion.
TrimSeekAndStart ==
    /\ recorder' = "recording"
    /\ starts' = starts + 1
    /\ video' = [video EXCEPT !.currentTime = startTime, !.seeking = TRUE, !.loaded = TRUE]
    /\ pending' = (pending \ { "loadedmetadata" }) \cup { "seeked" }
    /\ calls' = << "createCanvas", "captureStream", "newMediaRecorder", "start", "seek" >>

\* trimVideo once its encoder is constructed: the encoder is left inactive,
\* the source is sent to startTime, and onseeked is registered.
TrimSeekToStart ==
    /\ recorder' = "inactive"
    /\ starts' = starts
    /\ video' = [video EXCEPT !.currentTime = startTime, !.seeking = TRUE, !.loaded = TRUE]
    /\ pending' = (pending \ { "loadedmetadata" }) \cup { "seeked" }
    /\ calls' = << "createCanvas", "captureStream", "newMediaRecorder", "seek" >>

\* trimVideo: range check, frame buffer, audio graph, negotiation, encoder, seek.
\* new MediaRecorder(...) throws NotSupportedError for a type the host does not
\* support: the handler then ends there, with the promise left as it is.
TrimLoadedMetadata ==
    /\ UNCHANGED toolVars
    /\ kind = "trim"
    /\ "loadedmetadata" \in pending
    /\ IF InvalidRange(startTime, endTime, video.duration)
       THEN /\ Reject("Invalid trim range.", "")
            /\ pending' = pending \ { "loadedmetadata" }
            /\ calls' = << "reject" >>
            /\ video' = [video EXCEPT !.loaded = TRUE]
            /\ UNCHANGED << canvas, stream, selectedMimeType, ctorMime, recorder, starts,
                            threw >>
       ELSE /\ canvas' = TRUE
            /\ IF ~ctxOk
               THEN /\ Reject("Could not get canvas context", "")
                    /\ pending' = pending \ { "loadedmetadata" }
                    /\ calls' = << "createCanvas", "reject" >>
                    /\ video' = [video EXCEPT !.loaded = TRUE]
                    /\ UNCHANGED << stream, selectedMimeType, ctorMime, recorder, starts,
                                    threw >>
               ELSE LET found == Find(TrimCandidates, supported)
                        sel == IF found = "" THEN TrimFallback ELSE found
                    IN  /\ stream' = "canvas+audio"
                        /\ selectedMimeType' = sel
                        /\ ctorMime' = sel
                        /\ NoSettle
                        /\ IF sel \in supported
                           THEN /\ TrimSeekToStart
                                /\ threw' = threw
                           ELSE /\ threw' = TRUE
                                /\ pending' = pending \ { "loadedmetadata" }
                                /\ calls' = << "createCanvas", "captureStream",
                                               "newMediaRecorder", "throw" >>
                                /\ video' = [video EXCEPT !.loaded = TRUE]
                                /\ UNCHANGED << recorder, starts >>
    /\ UNCHANGED << inputs, interrupted, pauses, drawn, encoderFailed, chunks,
                    released, progressLog, frameTime, seekDone >>

\* convertVideo: audio graph, optional frame buffer, negotiation, encoder, start.
ConvertLoadedMetadata ==
    /\ UNCHANGED toolVars
    /\ kind = "convert"
    /\ "loadedmetadata" \in pending
    /\ LET audioOnly == IsAudioOnly(targetFormat)
           sel == ConvertSelect(targetFormat, supported)
       IN  /\ canvas' = ~audioOnly
           /\ video' = [video EXCEPT !.loaded = TRUE]
           /\ IF ~audioOnly /\ ~ctxOk
              THEN /\ Reject("Could not get canvas context", "")
                   /\ pending' = pending \ { "loadedmetadata" }
                   /\ calls' = << "createCanvas", "reject" >>
                   /\ UNCHANGED << stream, selectedMimeType, ctorMime, recorder, starts >>
              ELSE /\ stream' = IF audioOnly THEN "audio" ELSE "canvas+audio"
                   /\ selectedMimeType' = sel
                   /\ IF sel = ""
                      THEN /\ Reject("Your browser cannot encode to a format compatible with",
                                     ToUpperCase(targetFormat))
                           /\ pending' = pending \ { "loadedmetadata" }
                           /\ calls' = << "reject" >>
                           /\ UNCHANGED << ctorMime, recorder, starts >>
                      ELSE /\ ctorMime' = sel
                           /\ recorder' = "recording"
                           /\ starts' = starts + 1
                           /\ pending' = (pending \ { "loadedmetadata" }) \cup { "play" }
                           /\ calls' = (IF audioOnly THEN << >>
                                         ELSE << "createCanvas", "captureStream" >>)
                                           \o << "newMediaRecorder", "start", "play" >>
                           /\ NoSettle
    /\ UNCHANGED << inputs, interrupted, pauses, drawn, encoderFailed, threw, chunks,
                    released, progressLog, frameTime, seekDone >>

\* video.onerror before the metadata is ready: the source cannot be loaded.
LoadErrorMessage ==
    CASE kind = "burn" -> "Error loading video source metadata."
      [] kind = "trim" -> "Error loading video."
      [] OTHER -> "Error loading video file."

LoadError ==
    /\ UNCHANGED toolVars
    /\ "loadedmetadata" \in pending
    /\ video' = [video EXCEPT !.error = TRUE]
    /\ pending' = {}
    /\ Reject(LoadErrorMessage, "")
    /\ calls' = << "reject" >>
    /\ UNCHANGED << inputs, interrupted, pauses, canvas, drawn, stream, selectedMimeType,
                    ctorMime, recorder, starts, encoderFailed, threw, chunks, released,
                    progressLog, frameTime, seekDone >>

\* -------------------------------------------------------------- renderFrame
\* Each renderFrame is given p, the callbacks still pending, and v, the source
\* element as the call finds it.

\* burnSubtitles.renderFrame: stops only at the source's end, draws while playing.
BurnRenderFrame(p, v) ==
    /\ frameTime' = v.currentTime
    /\ video' = v
    /\ IF v.ended
       THEN /\ pending' = p
            /\ calls' = << >>
            /\ UNCHANGED << drawn, progressLog >>
       ELSE /\ pending' = p \cup { "frame" }
            /\ IF ~v.paused
               THEN /\ drawn' = drawn \cup { v.currentTime }
                    /\ progressLog' =
                          Append(progressLog, CapProgress(v.currentTime, v.duration))
                    /\ calls' = << "drawImage", "onProgress", "requestFrame" >>
               ELSE /\ calls' = << "requestFrame" >>
                    /\ UNCHANGED << drawn, progressLog >>
    /\ UNCHANGED << recorder, starts, threw >>

\* recorder.stop() followed by onProgress(100), as trimVideo's end branch and
\* convertVideo's onended call them; before holds the calls made so far.
\* stop() on an encoder that is already inactive does nothing in some hosts and
\* throws InvalidStateError in others; the throw ends the handler.
StopThenProgress(p, before) ==
    IF recorder = "recording"
    THEN /\ recorder' = "inactive"
         /\ starts' = starts
         /\ pending' = p \cup { "stop" }
         /\ progressLog' = Append(progressLog, << ProgressDone, 1 >>)
         /\ calls' = before \o << "stop", "onProgress" >>
         /\ threw' = threw
    ELSE \E throws \in BOOLEAN :
            /\ UNCHANGED << recorder, starts >>
            /\ pending' = p
            /\ threw' = (threw \/ throws)
            /\ progressLog' = IF throws THEN progressLog
                              ELSE Append(progressLog, << ProgressDone, 1 >>)
            /\ calls' = before \o (IF throws THEN << "stop", "throw" >>
                                   ELSE << "stop", "onProgress" >>)

\* Faulty variant of TrimRenderFrame, for C7: at the end offset the encoder is
\* stopped while the source keeps playing.
TrimRenderFrameNoPause(p, v) ==
    /\ frameTime' = v.currentTime
    /\ video' = v
    /\ IF v.paused \/ v.ended
       THEN /\ pending' = p
            /\ calls' = << >>
            /\ UNCHANGED << drawn, progressLog, recorder, starts, threw >>
       ELSE /\ drawn' = drawn \cup { v.currentTime }
            /\ IF v.currentTime >= endTime
               THEN StopThenProgress(p, << "drawImage" >>)
               ELSE /\ progressLog' =
                          Append(progressLog,
                                 CapProgress(v.currentTime - startTime, endTime - startTime))
                    /\ pending' = p \cup { "frame" }
                    /\ calls' = << "drawImage", "onProgress", "requestFrame" >>
                    /\ UNCHANGED << recorder, starts, threw >>

\* trimVideo.renderFrame: draws, then checks the end offset.
TrimRenderFrame(p, v) ==
    /\ frameTime' = v.currentTime
    /\ IF v.paused \/ v.ended
       THEN /\ pending' = p
            /\ video' = v
            /\ calls' = << >>
            /\ UNCHANGED << drawn, progressLog, recorder, starts, threw >>
       ELSE /\ drawn' = drawn \cup { v.currentTime }
            /\ IF v.currentTime >= endTime
               THEN /\ video' = [v EXCEPT !.paused = TRUE]
                    /\ StopThenProgress(p, << "drawImage", "pause" >>)
               ELSE /\ video' = v
                    /\ progressLog' =
                          Append(progressLog,
                                 CapProgress(v.currentTime - startTime, endTime - startTime))
                    /\ pending' = p \cup { "frame" }
                    /\ calls' = << "drawImage", "onProgress", "requestFrame" >>
                    /\ UNCHANGED << recorder, starts, threw >>

\* convertVideo.renderFrame: draws only when there is a frame buffer.
ConvertRenderFrame(p, v) ==
    /\ frameTime' = v.currentTime
    /\ video' = v
    /\ IF v.paused \/ v.ended
       THEN /\ pending' = p
            /\ calls' = << >>
            /\ UNCHANGED << drawn, progressLog >>
       ELSE /\ drawn' = IF canvas THEN drawn \cup { v.currentTime } ELSE drawn
            /\ progressLog' = Append(progressLog, CapProgress(v.currentTime, v.duration))
            /\ pending' = p \cup { "frame" }
            /\ calls' = (IF canvas THEN << "drawImage" >> ELSE << >>)
                           \o << "onProgress", "requestFrame" >>
    /\ UNCHANGED << recorder, starts, threw >>

RenderFrame(p, v) ==
    CASE kind = "burn" -> BurnRenderFrame(p, v)
      [] kind = "trim" -> TrimRenderFrame(p, v)
      [] OTHER -> ConvertRenderFrame(p, v)

\* The display scheduler runs the registered frame callback: for a newly
\* presented frame, or (requestAnimationFrame) while the source stands still.
FrameCallback ==
    /\ UNCHANGED toolVars
    /\ "frame" \in pending
    /\ ~video.error
    /\ video.currentTime # frameTime \/ video.paused \/ video.ended
    /\ RenderFrame(pending \ { "frame" }, video)
    /\ UNCHANGED << inputs, interrupted, pauses, canvas, stream, selectedMimeType, ctorMime,
                    encoderFailed, chunks, promise, error, blob, released, seekDone >>

\* ------------------------------------------------------------ source events
\* trimVideo's video.onseeked: the seek to startTime is complete.
Seeked ==
    /\ UNCHANGED toolVars
    /\ "seeked" \in pending
    /\ ~video.error
    /\ video' = [video EXCEPT !.seeking = FALSE]
    /\ seekDone' = TRUE
    /\ recorder' = "recording"
    /\ starts' = starts + 1
    /\ pending' = (pending \ { "seeked" }) \cup { "play" }
    /\ calls' = << "start", "play" >>
    /\ UNCHANGED << inputs, interrupted, pauses, canvas, drawn, stream, selectedMimeType,
                    ctorMime, encoderFailed, threw, chunks, promise, error, blob, released,
                    progressLog, frameTime >>

\* video.play() is fulfilled when playback has begun; its then-callback kicks
\* off the render loop (burnSubtitles registers it, the others call it).
PlayResolves ==
    /\ UNCHANGED toolVars
    /\ "play" \in pending
    /\ ~video.error
    /\ LET v == [video EXCEPT !.paused = FALSE]
           p == pending \ { "play" }
       IN  IF kind = "burn"
           THEN /\ video' = v
                /\ pending' = p \cup { "frame" }
                /\ calls' = << "requestFrame" >>
                /\ UNCHANGED << drawn, progressLog, recorder, starts, threw, frameTime >>
           ELSE RenderFrame(p, v)
    /\ UNCHANGED << inputs, interrupted, pauses, canvas, stream, selectedMimeType, ctorMime,
                    encoderFailed, chunks, promise, error, blob, released, seekDone >>

\* video.play() is rejected (the host refuses to start playback): reject(e).
PlayRejects ==
    /\ UNCHANGED toolVars
    /\ "play" \in pending
    /\ ~video.error
    /\ pending' = pending \ { "play" }
    /\ Reject("NotAllowedError", "")
    /\ calls' = << "reject" >>
    /\ UNCHANGED << inputs, video, interrupted, pauses, canvas, drawn, stream,
                    selectedMimeType, ctorMime, recorder, starts, encoderFailed, threw, chunks,
                    released, progressLog, frameTime, seekDone >>

\* The instants playback passes through: every time unit and the tick before it.
Instants ==
    { k * TimeScale : k \in 0..MaxDuration } \cup { k * TimeScale - 1 : k \in 1..MaxDuration }

NextInstant(t) == CHOOSE i \in Instants : i > t /\ \A j \in Instants : j > t => i <= j

\* Playback advances to the next instant; at the duration the source has ended
\* and its 'ended' event is queued.
Tick ==
    /\ UNCHANGED toolVars
    /\ ~video.paused /\ ~video.ended /\ ~video.error /\ ~video.seeking
    /\ video.currentTime < video.duration
    /\ LET t == NextInstant(video.currentTime)
       IN  /\ video' = [video EXCEPT !.currentTime = t, !.ended = (t = video.duration)]
           /\ pending' = IF t = video.duration THEN pending \cup { "ended" } ELSE pending
    /\ calls' = << >>
    /\ UNCHANGED << inputs, interrupted, pauses, canvas, drawn, stream, selectedMimeType,
                    ctorMime, recorder, starts, encoderFailed, threw, chunks, promise, error, blob,
                    released, progressLog, frameTime, seekDone >>

\* The 'ended' event: burnSubtitles reports 100 and arms the settle timer,
\* convertVideo stops the encoder and reports 100, trimVideo has no handler.
Ended ==
    /\ UNCHANGED toolVars
    /\ "ended" \in pending
    /\ video' = [video EXCEPT !.paused = TRUE]
    /\ LET p == pending \ { "ended" }
       IN  CASE kind = "burn" ->
                  /\ progressLog' = Append(progressLog, << ProgressDone, 1 >>)
                  /\ pending' = p \cup { "settle" }
                  /\ calls' = << "onProgress", "setTimeout" >>
                  /\ UNCHANGED << recorder, starts, threw >>
             [] kind = "convert" -> StopThenProgress(p, << >>)
             [] OTHER ->
                  /\ pending' = p
                  /\ calls' = << >>
                  /\ UNCHANGED << progressLog, recorder, starts, threw >>
    /\ UNCHANGED << inputs, interrupted, pauses, canvas, drawn, stream, selectedMimeType,
                    ctorMime, encoderFailed, chunks, promise, error, blob, released,
                    frameTime, seekDone >>

\* burnSubtitles' settle timer (1500 ms after 'ended') stops a live encoder.
SettleTimer ==
    /\ UNCHANGED toolVars
    /\ "settle" \in pending
    /\ IF recorder # "inactive"
       THEN /\ recorder' = "inactive"
            /\ pending' = (pending \ { "settle" }) \cup { "stop" }
            /\ calls' = << "stop" >>
       ELSE /\ recorder' = recorder
            /\ pending' = pending \ { "settle" }
            /\ calls' = << >>
    /\ UNCHANGED << inputs, video, interrupted, pauses, canvas, drawn, stream,
                    selectedMimeType, ctorMime, starts, encoderFailed, threw, chunks, promise,
                    error, blob, released, progressLog, frameTime, seekDone >>

\* ----------------------------------------------------------- encoder events
\* The encoder has become inactive: its last dataavailable (kept when not
\* empty) and then recorder.onstop, which resolves with the blob of the chunks
\* and arms the cleanup timer.
Stopped ==
    /\ UNCHANGED toolVars
    /\ "stop" \in pending
    /\ \E size \in 0..1 :
          /\ chunks' = IF size > 0 THEN chunks + 1 ELSE chunks
          /\ Resolve([type |-> selectedMimeType, parts |-> chunks'])
    /\ pending' = (pending \ { "stop" }) \cup { "cleanup" }
    /\ calls' = << "resolve", "setTimeout" >>
    /\ UNCHANGED << inputs, video, interrupted, pauses, canvas, drawn, stream,
                    selectedMimeType, ctorMime, recorder, starts, encoderFailed, threw, released,
                    progressLog, frameTime, seekDone >>

\* The cleanup timer of recorder.onstop: video.remove(), canvas.remove(),
\* audioCtx.close(), URL.revokeObjectURL(video.src).
Cleanup ==
    /\ UNCHANGED toolVars
    /\ "cleanup" \in pending
    /\ released' = released + 1
    /\ pending' = pending \ { "cleanup" }
    /\ calls' = << "remove", "close", "revokeObjectURL" >>
    /\ UNCHANGED << inputs, video, interrupted, pauses, canvas, drawn, stream,
                    selectedMimeType, ctorMime, recorder, starts, encoderFailed, threw, chunks,
                    promise, error, blob, progressLog, frameTime, seekDone >>

\* ------------------------------------------------------------------- faults
\* The host pauses the playing source (an interruption), and resumes it.
SourcePause ==
    /\ UNCHANGED toolVars
    /\ ~video.paused /\ ~video.ended /\ ~video.error
    /\ pauses < MaxPauses
    /\ video' = [video EXCEPT !.paused = TRUE]
    /\ interrupted' = TRUE
    /\ pauses' = pauses + 1
    /\ calls' = << >>
    /\ UNCHANGED << inputs, canvas, drawn, stream, selectedMimeType, ctorMime, recorder, starts,
                    encoderFailed, threw, chunks, promise, error, blob, pending, released,
                    progressLog, frameTime, seekDone >>

SourceResume ==
    /\ UNCHANGED toolVars
    /\ interrupted
    /\ ~video.error
    /\ video' = [video EXCEPT !.paused = FALSE]
    /\ interrupted' = FALSE
    /\ calls' = << >>
    /\ UNCHANGED << inputs, pauses, canvas, drawn, stream, selectedMimeType, ctorMime,
                    recorder, starts, encoderFailed, threw, chunks, promise, error, blob, pending,
                    released, progressLog, frameTime, seekDone >>

\* video.onerror while the job uses the source (seeking, starting, playing).
PlayErrorMessage ==
    CASE kind = "burn" -> "Error playing video during processing."
      [] kind = "trim" -> "Error loading video."
      [] OTHER -> "Error loading video file."

SourceError ==
    /\ UNCHANGED toolVars
    /\ ~video.error /\ ~video.ended
    /\ recorder # "none"
    /\ video.seeking \/ "play" \in pending \/ ~video.paused \/ interrupted
    /\ video' = [video EXCEPT !.error = TRUE]
    /\ Reject(PlayErrorMessage, "")
    /\ calls' = << "reject" >>
    /\ UNCHANGED << inputs, interrupted, pauses, canvas, drawn, stream, selectedMimeType,
                    ctorMime, recorder, starts, encoderFailed, threw, chunks, pending, released,
                    progressLog, frameTime, seekDone >>

\* The platform encoder fails while recording: it becomes inactive and fires
\* error (no handler is registered), dataavailable and stop.
EncoderError ==
    /\ UNCHANGED toolVars
    /\ recorder = "recording"
    /\ recorder' = "inactive"
    /\ encoderFailed' = TRUE
    /\ pending' = pending \cup { "stop" }
    /\ calls' = << >>
    /\ UNCHANGED << inputs, video, interrupted, pauses, canvas, drawn, stream,
                    selectedMimeType, ctorMime, starts, threw, chunks, promise, error, blob,
                    released, progressLog, frameTime, seekDone >>

\* ------------------------------------------------------------ specification
\* The events the platform delivers whenever they are due.
Deliver ==
    \/ BurnLoadedMetadata
    \/ TrimLoadedMetadata
    \/ ConvertLoadedMetadata
    \/ Seeked
    \/ PlayResolves
    \/ Tick
    \/ FrameCallback
    \/ Ended
    \/ SettleTimer
    \/ Stopped
    \/ Cleanup
    \/ SourceResume

\* What may go wrong, or not.
Fault ==
    \/ LoadError
    \/ PlayRejects
    \/ SourcePause
    \/ SourceError
    \/ EncoderError

Next == Deliver \/ Fault

Spec == Init /\ [][Next]_vars

\* Format negotiation on every host: the jobs up to the end of their
\* onloadedmetadata handler.
Negotiate ==
    \/ BurnLoadedMetadata
    \/ TrimLoadedMetadata
    \/ ConvertLoadedMetadata

NegotiateSpec == InitAnyHost /\ [][Negotiate]_vars

\* ================================================================== claims
Has(seq, x) == \E i \in 1..Len(seq) : seq[i] = x

Before(a, b, seq) == \E i, j \in 1..Len(seq) : i < j /\ seq[i] = a /\ seq[j] = b

Settled == promise # "pending"

\* An event of the job is still due: the platform has a handler to run.
EventDue == ENABLED << Deliver >>_vars

\* No frame was skipped: every instant the source has played through since
\* the start offset was seen, and drawn, by the render loop.
FramesDelivered ==
    \A i \in Instants : (startTime <= i /\ i < video.currentTime) => i \in drawn

\* C1: every started job eventually settles its promise when the events are
\* delivered fairly.  As a safety property: as long as the promise is pending
\* (no handler was ended by an exception, no frame was skipped), some event
\* is still due.
C1_UnsettledJobHasDueEvent == (~Settled /\ ~threw /\ FramesDelivered) => EventDue

\* C2: on every exit path of a job, success or rejection, its resources are
\* released, exactly once: a settled job with no event left has run its
\* cleanup once, and no job runs it twice.
C2_ReleasedOnceOnEveryExit ==
    /\ released <= 1
    /\ (Settled /\ ~EventDue) => released = 1

\* C3: after a failure of the source or of the encoder during recording the
\* job is never fulfilled with a blob.
C3_NoBlobAfterFailure ==
    (starts > 0 /\ (encoderFailed \/ video.error)) => promise # "fulfilled"

\* The candidate types of the job's operation kind and target.
Candidates ==
    CASE kind = "burn" -> Range(BurnCandidates)
      [] kind = "trim" -> Range(TrimCandidates)
      [] IsAudioOnly(targetFormat) -> Range(AudioCandidates)
      [] targetFormat \in Mp4Compatible -> Range(Mp4Candidates) \cup Range(WebmCandidates)
      [] OTHER -> Range(WebmCandidates)

\* The job has reached its format negotiation: the metadata is loaded, the
\* trim range is valid and the frame buffer, if one is needed, has a context.
Negotiated ==
    /\ video.loaded
    /\ kind = "trim" => ~(startTime >= endTime \/ startTime < 0 \/ endTime > video.duration)
    /\ ctxOk \/ (kind = "convert" /\ IsAudioOnly(targetFormat))

UnsupportedFormatError ==
    /\ promise = "rejected"
    /\ \/ error.message = "No supported video mime type found for recording."
       \/ /\ error.message = "Your browser cannot encode to a format compatible with"
          /\ error.target = ToUpperCase(targetFormat)

\* C4: when the host supports none of the kind's candidates the job ends with
\* an UnsupportedFormat error, and no encoder is ever constructed with a type
\* the host does not support.
C4_UnsupportedFormatRejected ==
    /\ ctorMime # "" => ctorMime \in supported
    /\ (Negotiated /\ Candidates \cap supported = {}) =>
          (UnsupportedFormatError /\ ctorMime = "" /\ starts = 0)

\* The mp4 and the webm types among the candidates.
Mp4Types ==
    { "video/mp4", "video/mp4;codecs=avc1", "video/mp4;codecs=h264",
      "video/mp4;codecs=\"avc1.42E01E, mp4a.40.2\"",
      "video/mp4;codecs=\"avc1.4d002a, mp4a.40.2\"",
      "video/mp4;codecs=\"avc1.64001f, mp4a.40.2\"" }

WebmTypes == { "video/webm", "video/webm;codecs=h264", "video/webm;codecs=vp9" }

CandidateList == IF kind = "burn" THEN BurnCandidates ELSE TrimCandidates

TerminalEvent == IF kind = "trim" THEN video.currentTime >= endTime ELSE video.ended

\* C6: the progress values are non-decreasing, none above 99 is emitted before
\* the terminal event, and the only value above 99 is 100, with nothing
\* smaller after it.
C6_ProgressMonotoneAndCapped ==
    /\ \A i \in 1..(Len(progressLog) - 1) : Leq(progressLog[i], progressLog[i + 1])
    /\ \A i \in 1..Len(progressLog) :
          ~Leq(progressLog[i], << ProgressCap, 1 >>) =>
              (progressLog[i] = << ProgressDone, 1 >> /\ TerminalEvent)

\* C6 witness: a recording whose progress met the cap before its 100.
C6_Witness ==
    /\ Len(progressLog) >= 3
    /\ progressLog[Len(progressLog)] = << ProgressDone, 1 >>
    /\ progressLog[Len(progressLog) - 1] = << ProgressCap, 1 >>
    /\ video.duration > TimeScale

\* The last handler was trimVideo's renderFrame finding the end offset reached.
TrimBoundaryFrame ==
    /\ kind = "trim"
    /\ Len(calls) > 0 /\ calls[1] = "drawImage"
    /\ video.currentTime >= endTime

\* C7: when trimVideo's render loop finds the end offset reached, it pauses
\* the source, then stops the encoder, in that same step: no timer is armed.
C7_PauseThenStopAtBoundary ==
    TrimBoundaryFrame =>
        /\ Before("pause", "stop", calls)
        /\ video.paused
        /\ recorder = "inactive"
        /\ "settle" \notin pending

\* C7 witness: the loop has found an end offset inside the source reached and
\* the encoder's stop event is due.
C7_Witness == TrimBoundaryFrame /\ "stop" \in pending /\ endTime < video.duration

\* C8: at the 'ended' event of a burn-in or convert job the encoder is not
\* stopped; a settle timer is armed instead.
C8_EndedArmsSettleDelay ==
    [][ (/\ kind \in { "burn", "convert" }
         /\ "ended" \in pending /\ "ended" \notin pending'
         /\ recorder = "recording")
        => (recorder' = "recording" /\ "settle" \in pending') ]_vars

\* C9: trimVideo seeks to the start offset first; until the seek is complete
\* the encoder is not started, playback is not started and no frame is drawn.
C9_RecordingOnlyAfterSeek ==
    kind = "trim" =>
        /\ ~seekDone =>
              /\ starts = 0
              /\ recorder # "recording"
              /\ drawn = {}
              /\ progressLog = << >>
              /\ video.paused
              /\ pending \cap { "play", "frame" } = {}
        /\ (starts > 0 \/ drawn # {}) => seekDone
        /\ \A t \in drawn : t >= startTime
        /\ "seeked" \in pending => (video.seeking /\ video.currentTime = startTime)

\* C9 witness: a trim from a later start offset is recording after its seek
\* and has drawn the frame at the start offset.
C9_Witness ==
    /\ kind = "trim" /\ seekDone /\ recorder = "recording"
    /\ startTime > 0 /\ startTime \in drawn

\* C10: a trim whose range is invalid is rejected with the invalid-range error
\* once the metadata is loaded: no frame buffer, no encoder, no seek, no
\* playback and no progress value.
C10_InvalidRangeRejected ==
    (/\ kind = "trim"
     /\ video.loaded
     /\ (startTime >= endTime \/ startTime < 0 \/ endTime > video.duration)) =>
        /\ promise = "rejected"
        /\ error.message = "Invalid trim range."
        /\ ~canvas
        /\ recorder = "none" /\ ctorMime = "" /\ starts = 0
        /\ ~video.seeking /\ video.paused /\ video.currentTime = 0
        /\ pending = {}
        /\ progressLog = << >>

\* C10 witness: a range that is only invalid by its end offset lying past the
\* duration was rejected, on a host where the job could otherwise run.
C10_Witness ==
    /\ kind = "trim" /\ video.loaded /\ promise = "rejected"
    /\ 0 <= startTime /\ startTime < endTime /\ endTime > video.duration
    /\ ctxOk /\ supported # {}

\* C16: a convert job to an audio-only target (weba in any letter case, mpa)
\* creates no frame buffer, hands the encoder the audio graph's stream alone,
\* never draws a frame, and its encoder and blob carry an audio candidate type.
C16_AudioOnlyRoutesAudioGraph ==
    (kind = "convert" /\ ToLowerCase(targetFormat) \in AudioOnlyFormats) =>
        /\ ~canvas
        /\ drawn = {}
        /\ stream \in { "none", "audio" }
        /\ recorder # "none" => stream = "audio"
        /\ \A i \in 1..Len(calls) :
              calls[i] \notin { "createCanvas", "captureStream", "drawImage" }
        /\ ctorMime # "" => ctorMime \in Range(AudioCandidates)
        /\ promise = "fulfilled" => blob.type \in Range(AudioCandidates)

\* C16 witness: a conversion to WEBA has run to its end, frame callbacks
\* included, and resolved with a blob.
C16_Witness ==
    /\ kind = "convert" /\ targetFormat = "WEBA"
    /\ promise = "fulfilled" /\ blob.parts > 0
    /\ Len(progressLog) >= 3

\* C20: trimVideo draws no frame whose playback time is at or past the end
\* offset.
C20_NoFrameAtOrPastEnd ==
    kind = "trim" => \A t \in drawn : t < endTime

\* The render loop of a recording job with a frame buffer has begun, and the
\* source is playing.
LoopBegunAndPlaying ==
    /\ recorder = "recording" /\ canvas
    /\ drawn # {}
    /\ "play" \notin pending
    /\ ~video.paused /\ ~video.ended /\ ~video.error

\* C21: while the job records and the source plays, the render loop is
\* scheduled: the next frame-ready signal draws the frame, after a pause and
\* resume of the source too.
C21_RenderLoopKeepsRunning ==
    LoopBegunAndPlaying => "frame" \in pending

\* trimVideo's video.onseeked stays registered: a further seek-complete event
\* of the source runs it again.  recorder.start() throws InvalidStateError on
\* an encoder that is recording and restarts one that was stopped.
SeekedAgain ==
    /\ UNCHANGED toolVars
    /\ kind = "trim"
    /\ seekDone
    /\ ~video.error
    /\ released = 0
    /\ starts <= MaxExtraSeeks
    /\ starts' = starts + 1
    /\ IF recorder = "recording"
       THEN /\ threw' = TRUE
            /\ calls' = << "start", "throw" >>
            /\ UNCHANGED << recorder, pending >>
       ELSE /\ recorder' = "recording"
            /\ pending' = pending \cup { "play" }
            /\ calls' = << "start", "play" >>
            /\ threw' = threw
    /\ UNCHANGED << inputs, video, interrupted, pauses, canvas, drawn, stream,
                    selectedMimeType, ctorMime, encoderFailed, chunks, promise, error, blob,
                    released, progressLog, frameTime, seekDone >>

\* A trim job whose source may deliver further seek-complete events, nothing
\* else going wrong.
SeekInit == Init /\ kind = "trim"

SeekNext ==
    \/ TrimLoadedMetadata
    \/ Seeked
    \/ SeekedAgain
    \/ PlayResolves
    \/ Tick
    \/ FrameCallback
    \/ Ended
    \/ Stopped
    \/ Cleanup

SeekSpec == SeekInit /\ [][SeekNext]_vars

\* C22: recorder.start() is invoked at most once in a trim job, and never on
\* an encoder that is recording or was stopped.
C22_EncoderStartedAtMostOnce ==
    kind = "trim" => (starts <= 1 /\ ~(Has(calls, "start") /\ Has(calls, "throw")))

\* C25: convertVideo to a video target chooses the first supported mp4
\* candidate when the extension is of the mp4 family and an mp4 candidate is
\* supported, and the first supported entry of the webm ladder otherwise
\* (none when the host supports none of the ladder).
C25_ConvertFamilyThenWebmLadder ==
    (kind = "convert" /\ ToLowerCase(targetFormat) \notin { "weba", "mpa" }
                      /\ video.loaded /\ ctxOk) =>
        LET mp4s == << "video/mp4;codecs=avc1",
                       "video/mp4;codecs=\"avc1.42E01E, mp4a.40.2\"",
                       "video/mp4" >>
            webms == << "video/webm;codecs=vp9", "video/webm;codecs=h264", "video/webm" >>
            family == targetFormat \in { "mp4", "m4v", "mov", "qt", "3gp", "moov" }
            ladder == IF family /\ Range(mp4s) \cap supported # {} THEN mp4s ELSE webms
        IN  /\ \A i \in 1..3 :
                  (/\ ladder[i] \in supported
                   /\ \A j \in 1..(i - 1) : ladder[j] \notin supported)
                  => selectedMimeType = ladder[i]
            /\ Range(ladder) \cap supported = {} => selectedMimeType = ""

\* C25 witness: for the target mov the host has no mp4 candidate and two of
\* the webm ladder, not the first; the second was chosen.
C25_Witness ==
    /\ kind = "convert" /\ targetFormat = "mov" /\ video.loaded /\ ctxOk
    /\ supported = { "video/webm;codecs=h264", "video/webm" }
    /\ selectedMimeType = "video/webm;codecs=h264"
    /\ recorder = "recording"

\* ============================================================ audio tools
\* A sample value is kept exactly, as the fraction <<n, d>> (d > 0); <<0, 0>>
\* is NaN.
NaN == << 0, 0 >>

IsNaN(s) == s[2] = 0

\* The sample values the test buffers are filled with: out of range, the
\* boundaries, inside the range, NaN.
Samples ==
    << << 0, 1 >>, << 1, 1 >>, << -1, 1 >>, << 1, 2 >>, << 2, 1 >>,
       << -1, 2 >>, << -2, 1 >>, << 1, 3 >>, << -3, 2 >>, NaN >>

\* ------------------------------------------------------------------ bounds
MaxChannels == 3
MaxFrames == 3

\* ------------------------------------------------------- program constants
WavHeaderBytes == 44
RiffRestBytes == 36
BitDepth == 16
NegativeScale == 32768
PositiveScale == 32767
Int16Modulus == 65536

\* buffer.getChannelData(c)[i] (c and i count from 0): the buffer with the
\* seed carries the sample values in turn, each channel from another place.
ChannelSample(b, c, i) ==
    Samples[((b.seed + c * (b.length + 1) + i) % Len(Samples)) + 1]

GetChannelData(b, c) == [i \in 1..b.length |-> ChannelSample(b, c, i - 1)]

\* The decoded buffers a tool function is called with.
Buffers(lengths, seeds) ==
    [numberOfChannels : 1..MaxChannels, length : lengths, seed : seeds]

\* Faulty variant of Clamp, for C12: the value is not clamped.
ClampNone(s) == s

\* Math.max(-1, Math.min(1, s)): NaN stays NaN.
Clamp(s) ==
    IF IsNaN(s) THEN s
    ELSE IF s[1] > s[2] THEN << 1, 1 >>
    ELSE IF s[1] < -s[2] THEN << -1, 1 >>
    ELSE s

\* s < 0 ? s * 0x8000 : s * 0x7FFF (NaN < 0 is false, NaN * k is NaN).
ScaleSample(s) ==
    IF IsNaN(s) THEN s
    ELSE IF s[1] < 0 THEN << s[1] * NegativeScale, s[2] >>
    ELSE << s[1] * PositiveScale, s[2] >>

\* The integer part of a fraction, towards zero.
Truncate(s) == IF s[1] >= 0 THEN s[1] \div s[2] ELSE -((-s[1]) \div s[2])

\* The conversion of a number stored into an Int16Array or by setInt16: NaN is
\* 0, the integer part is taken modulo 2^16 into [-2^15, 2^15).
ToInt16(s) ==
    IF IsNaN(s) THEN 0
    ELSE ((Truncate(s) + (Int16Modulus \div 2)) % Int16Modulus) - (Int16Modulus \div 2)

\* One sample through the conversion of audioBufferToWav and floatTo16BitPCM.
FloatTo16BitPCM(s) == ToInt16(ScaleSample(Clamp(s)))

\* ------------------------------------------------------- audioBufferToWav
\* The interleaved sample array: left and right in turn for two channels,
\* channel 0 alone for every other channel count.
Interleaved(b) ==
    IF b.numberOfChannels = 2
    THEN [k \in 1..(2 * b.length) |->
             ChannelSample(b, (k - 1) % 2, (k - 1) \div 2)]
    ELSE GetChannelData(b, 0)

\* audioBufferToWav(buffer): the size of the blob, the fields of the header
\* and the PCM samples written after it.
AudioBufferToWav ==
    /\ tool = "wav"
    /\ wav = NoWav
    /\ LET result == Interleaved(buffer)
           bytesPerSample == BitDepth \div 8
       IN  wav' = [size |-> WavHeaderBytes + Len(result) * bytesPerSample,
                   riffLength |-> RiffRestBytes + Len(result) * bytesPerSample,
                   numChannels |-> buffer.numberOfChannels,
                   blockAlign |-> buffer.numberOfChannels * bytesPerSample,
                   bitsPerSample |-> BitDepth,
                   dataLength |-> Len(result) * bytesPerSample,
                   source |-> result,
                   data |-> [i \in 1..Len(result) |-> FloatTo16BitPCM(result[i])]]
    /\ UNCHANGED << jobVars, cueVars, uiVars, tool, buffer, mp3, peaks, merge, lookup, wrap >>

\* C11: the WAV blob has 44 + frames x channels x 2 bytes, channels being the
\* channel count the header declares, and the header's data-chunk length is
\* frames x channels x 2.
C11_WavSizeMatchesHeader ==
    (tool = "wav" /\ wav # NoWav) =>
        /\ wav.size = WavHeaderBytes + buffer.length * wav.numChannels * 2
        /\ wav.dataLength = buffer.length * wav.numChannels * 2

\* ------------------------------------------------------- audioBufferToMp3
\* bounds
MaxBlocks == 2

\* program constants
SampleBlockSize == 1152

Min(a, b) == IF a < b THEN a ELSE b

Max(a, b) == IF a > b THEN a ELSE b

\* The buffer lengths around the block boundaries.
BlockLengths ==
    { n \in { k * SampleBlockSize + e : k \in 0..MaxBlocks, e \in { -1, 0, 1 } } : n >= 0 }

\* Faulty variant of NextBlock, for C17: consecutive blocks share a sample.
NextBlockOverlapping(i) == i + SampleBlockSize - 1

\* The loop's step: i += sampleBlockSize.
NextBlock(i) == i + SampleBlockSize

\* typedArray.subarray(from, to) of an array of len elements, as the index
\* range [from, to) it views.
Subarray(len, from, to) == [from |-> Min(from, len), to |-> Min(to, len)]

\* left[j], right[j] (j counts from 0): the converted channels 0 and 1.
LeftPcm(j) == FloatTo16BitPCM(ChannelSample(buffer, 0, j))

RightPcm(j) == FloatTo16BitPCM(ChannelSample(buffer, 1, j))

\* One pass of the loop: the next left (and right) chunk goes to
\* mp3encoder.encodeBuffer, whose fragment is kept when it is not empty.
EncodeBlock ==
    /\ tool = "mp3"
    /\ ~mp3.done
    /\ mp3.i < buffer.length
    /\ \E size \in 0..1 :
          LET chunk == Subarray(buffer.length, mp3.i, mp3.i + SampleBlockSize)
              mp3buf == [call |-> Len(mp3.returned) + 1, length |-> size]
          IN  mp3' = [mp3 EXCEPT
                        !.blocks = Append(@, [from |-> chunk.from, to |-> chunk.to,
                                              right |-> buffer.numberOfChannels > 1]),
                        !.returned = Append(@, mp3buf),
                        !.mp3Data = IF mp3buf.length > 0 THEN Append(@, mp3buf) ELSE @,
                        !.i = NextBlock(mp3.i)]
    /\ UNCHANGED << jobVars, cueVars, uiVars, tool, buffer, wav, peaks, merge, lookup, wrap >>

\* After the loop: mp3encoder.flush(), its fragment kept when it is not
\* empty, and the blob is made of mp3Data.
FlushEncoder ==
    /\ tool = "mp3"
    /\ ~mp3.done
    /\ mp3.i >= buffer.length
    /\ \E size \in 0..1 :
          LET endBuf == [call |-> Len(mp3.returned) + 1, length |-> size]
          IN  mp3' = [mp3 EXCEPT
                        !.returned = Append(@, endBuf),
                        !.mp3Data = IF endBuf.length > 0 THEN Append(@, endBuf) ELSE @,
                        !.flushes = @ + 1,
                        !.done = TRUE]
    /\ UNCHANGED << jobVars, cueVars, uiVars, tool, buffer, wav, peaks, merge, lookup, wrap >>

\* The fragment is not empty.
NonEmpty(fragment) == fragment.length > 0

\* C17: the blocks given to the encoder are consecutive, of 1152 samples (the
\* last one may be shorter), start at sample 0 and end at the last sample, the
\* right chunk going along for stereo; the encoder is flushed once, after the
\* last block; mp3Data is the non-empty fragments in the order returned.
C17_Mp3BlocksInOrderThenFlush ==
    tool = "mp3" =>
        LET n == Len(mp3.blocks)
        IN  /\ \A k \in 1..n :
                  /\ mp3.blocks[k].from = (k - 1) * SampleBlockSize
                  /\ mp3.blocks[k].from < mp3.blocks[k].to
                  /\ mp3.blocks[k].to = Min(k * SampleBlockSize, buffer.length)
                  /\ k < n => mp3.blocks[k].to = mp3.blocks[k + 1].from
                  /\ mp3.blocks[k].right = (buffer.numberOfChannels > 1)
            /\ mp3.done => (IF n = 0 THEN buffer.length = 0
                            ELSE mp3.blocks[n].to = buffer.length)
            /\ mp3.flushes = (IF mp3.done THEN 1 ELSE 0)
            /\ Len(mp3.returned) = n + mp3.flushes
            /\ \A k \in 1..Len(mp3.returned) : mp3.returned[k].call = k
            /\ mp3.mp3Data = SelectSeq(mp3.returned, NonEmpty)

\* C17 witness: a stereo buffer of two full blocks and a sample was encoded,
\* the encoder gave an empty fragment for one block and its flush fragment
\* is the last of the output.
C17_Witness ==
    /\ tool = "mp3" /\ mp3.done
    /\ buffer.numberOfChannels = 2
    /\ buffer.length = 2 * SampleBlockSize + 1
    /\ Len(mp3.blocks) = 3
    /\ Len(mp3.mp3Data) = 3
    /\ mp3.mp3Data[3].call = 4
    /\ \E k \in 1..3 : mp3.returned[k].length = 0

\* The 16-bit value v is what the claim asks for the sample s: inside the
\* int16 range, the boundaries exact, everything at or beyond a boundary on
\* that boundary, and the sign kept.
Pcm16Correct(s, v) ==
    /\ v \in -32768..32767
    /\ s = << -1, 1 >> => v = -32768
    /\ s = << 0, 1 >> => v = 0
    /\ s = << 1, 1 >> => v = 32767
    /\ ~IsNaN(s) =>
          /\ s[1] >= s[2] => v = 32767
          /\ s[1] <= -s[2] => v = -32768
          /\ s[1] >= 0 => v >= 0
          /\ s[1] <= 0 => v <= 0

\* C12: every sample audioBufferToWav writes and every sample of the chunks
\* audioBufferToMp3 gives the encoder is the 16-bit value of its float sample:
\* -1.0 is -32768, 0.0 is 0, 1.0 is 32767, values outside [-1, 1] are
\* clamped, nothing wraps around.
C12_FloatTo16BitClamped ==
    /\ (tool = "wav" /\ wav # NoWav) =>
          \A i \in 1..Len(wav.data) : Pcm16Correct(wav.source[i], wav.data[i])
    /\ tool = "mp3" =>
          \A k \in 1..Len(mp3.blocks) :
              \A j \in mp3.blocks[k].from..(mp3.blocks[k].to - 1) :
                  /\ Pcm16Correct(ChannelSample(buffer, 0, j), LeftPcm(j))
                  /\ mp3.blocks[k].right =>
                        Pcm16Correct(ChannelSample(buffer, 1, j), RightPcm(j))

\* C12 witness: a stereo WAV was written from samples at both boundaries,
\* beyond them and between them.
C12_Witness ==
    /\ tool = "wav" /\ wav # NoWav /\ buffer.numberOfChannels = 2
    /\ \E i, j, k, l \in 1..Len(wav.data) :
          /\ wav.source[i] = << 1, 1 >> /\ wav.data[i] = 32767
          /\ wav.source[j] = << -2, 1 >> /\ wav.data[j] = -32768
          /\ wav.source[k] = << -1, 2 >> /\ wav.data[k] = -16384
          /\ wav.source[l] = << 1, 2 >> /\ wav.data[l] = 16383

\* ------------------------------------------------------------ peak envelope
\* bounds
MaxWindow == 2

\* program constants
Buckets == 2000

\* Fractions with positive denominators, compared by value.
Less(p, q) == p[1] * q[2] < q[1] * p[2]

InUnitRange(s) == ~IsNaN(s) /\ s[1] <= s[2] /\ -s[2] <= s[1]

\* The sample values of a decoded channel that lie in [-1, 1].
UnitSamples == SelectSeq(Samples, InUnitRange)

\* channels[idx] (idx counts from 0) of the buffer with the seed.
UnitSample(b, idx) == UnitSamples[((b.seed + idx) % Len(UnitSamples)) + 1]

\* The sample counts around the multiples of the bucket count.
PeakLengths ==
    { n \in { k * Buckets + e : k \in 0..MaxWindow, e \in { -1, 0, 1 } } : n >= 0 }

\* Math.ceil(n / d) for n >= 0, d > 0.
Ceil(n, d) == (n + d - 1) \div d

\* The inner loop from j on: the least and the greatest sample of bucket i's
\* window, starting from min and max; indexes past the array are skipped.
RECURSIVE ScanWindow(_, _, _, _, _, _)
ScanWindow(b, i, step, j, min, max) ==
    IF j >= step THEN << min, max >>
    ELSE LET idx == i * step + j
         IN  IF idx < b.length
             THEN LET val == UnitSample(b, idx)
                  IN  ScanWindow(b, i, step, j + 1,
                                 IF Less(val, min) THEN val ELSE min,
                                 IF Less(max, val) THEN val ELSE max)
             ELSE ScanWindow(b, i, step, j + 1, min, max)

\* The Float32Array peaks: bucket i's min at 2i, its max at 2i + 1.
PeakEnvelope(b) ==
    LET step == Ceil(b.length, Buckets)
    IN  [k \in 1..(Buckets * 2) |->
            ScanWindow(b, (k - 1) \div 2, step, 0, << 1, 1 >>, << -1, 1 >>)[((k - 1) % 2) + 1]]

\* The peaks effect of AudioTrimmerTool and decodeAudio of WaveformTimeline.
ComputePeaks ==
    /\ tool = "peaks"
    /\ peaks = NoPeaks
    /\ peaks' = PeakEnvelope(buffer)
    /\ UNCHANGED << jobVars, cueVars, uiVars, tool, buffer, wav, mp3, merge, lookup, wrap >>

\* Bucket i (from 0) of the envelope.
BucketMin(i) == peaks[2 * i + 1]

BucketMax(i) == peaks[2 * i + 2]

\* No index of bucket i's window lies inside the sample array.
BucketEmpty(i) ==
    LET step == Ceil(buffer.length, Buckets)
    IN  \A j \in 0..(step - 1) : i * step + j >= buffer.length

\* C13: the envelope has 2 x bucketCount entries and in every bucket
\* min <= max, both in [-1, 1]; stated for the sample arrays of at least one
\* sample, which every decoded buffer has.
C13_EnvelopeMinBelowMax ==
    (tool = "peaks" /\ peaks # NoPeaks /\ buffer.length > 0) =>
        /\ Len(peaks) = 2 * Buckets
        /\ \A i \in 0..(Buckets - 1) :
              /\ ~Less(BucketMax(i), BucketMin(i))
              /\ InUnitRange(BucketMin(i)) /\ InUnitRange(BucketMax(i))

\* C19: a bucket that receives no sample has min = 0 and max = 0; stated
\* for the sample arrays of at least one sample.
C19_EmptyBucketIsZero ==
    (tool = "peaks" /\ peaks # NoPeaks /\ buffer.length > 0) =>
        \A i \in 0..(Buckets - 1) :
            BucketEmpty(i) => (BucketMin(i) = << 0, 1 >> /\ BucketMax(i) = << 0, 1 >>)

\* ------------------------------------------------- AudioJoinerTool.handleMerge
\* bounds
MaxTracks == 3

\* program constants
MergeSampleRate == 44100
MinTracks == 2

\* The sample rates of the AudioContext that decoded the tracks.
DeviceRates == { 44100, 48000 }

\* Times are whole ticks of 1 / 7056000 s (the least common multiple of the
\* rates): the ticks one frame lasts at the rate.
FrameTicks(rate) == CASE rate = 44100 -> 160 [] rate = 48000 -> 147

\* The frame counts of the decoded tracks.
TrackLengths == { 160, 161, 481 }

\* The track lists of 1..MaxTracks decoded tracks.
TrackLists == UNION { [1..n -> TrackLengths] : n \in 1..MaxTracks }

\* track.duration = audioBuffer.duration, in ticks.
TrackDuration(m, k) == m.tracks[k] * FrameTicks(m.deviceRate)

\* tracks.reduce((acc, track) => acc + track.duration, 0) over the first n.
RECURSIVE SumDurations(_, _)
SumDurations(m, n) == IF n = 0 THEN 0 ELSE SumDurations(m, n - 1) + TrackDuration(m, n)

\* The frame count the context is made with: sampleRate * totalDuration given
\* as an unsigned long, its fraction cut off.
ContextLength(totalDuration) == totalDuration \div FrameTicks(MergeSampleRate)

\* handleMerge: fewer than two tracks is an error; else the context is made
\* for the total duration and every track is started at the running time.
HandleMerge ==
    /\ tool = "merge"
    /\ ~merge.done
    /\ LET n == Len(merge.tracks)
       IN  IF n < MinTracks
           THEN merge' = [merge EXCEPT
                            !.error = "Please add at least 2 audio files to join.",
                            !.done = TRUE]
           ELSE merge' = [merge EXCEPT
                            !.length = ContextLength(SumDurations(merge, n)),
                            !.startTimes = [k \in 1..n |-> SumDurations(merge, k - 1)],
                            !.done = TRUE]
    /\ UNCHANGED << jobVars, cueVars, uiVars, tool, buffer, wav, mp3, peaks, lookup, wrap >>

\* The merge was rendered.
Merged == tool = "merge" /\ merge.done /\ merge.error = ""

\* C14: the rendering context is as long as the tracks together, whole frame
\* or not, and every track starts at the sum of the durations before it, so
\* that no track starts before the end of the one before.
C14_MergedHoldsAllTracks ==
    Merged =>
        LET n == Len(merge.tracks)
        IN  /\ merge.length * FrameTicks(MergeSampleRate) >= SumDurations(merge, n)
            /\ \A k \in 1..n : merge.startTimes[k] = SumDurations(merge, k - 1)
            /\ \A k \in 2..n :
                  merge.startTimes[k] >= merge.startTimes[k - 1] + TrackDuration(merge, k - 1)

\* ============================================================ subtitle tools
\* bounds
MaxCues == 3
MaxCueTime == 2

\* A cue: its place in the list is its identity; any start and end.
Cues == [startTime : 0..MaxCueTime, endTime : 0..MaxCueTime]

\* The cue lists: unsorted, overlapping and empty ones too.
CueLists == UNION { [1..n -> Cues] : n \in 0..MaxCues }

\* Faulty variant of CueActive, for C15: the end time is excluded.
CueActiveBeforeEnd(s, currentTime) == currentTime >= s.startTime /\ currentTime < s.endTime

\* The predicate of the lookup: currentTime >= s.startTime && currentTime <= s.endTime.
CueActive(s, currentTime) == currentTime >= s.startTime /\ currentTime <= s.endTime

\* Array.prototype.find from index i on: the index of the first cue the
\* predicate holds for, 0 (undefined) when there is none.
RECURSIVE FindCueFrom(_, _, _)
FindCueFrom(subtitles, currentTime, i) ==
    IF i > Len(subtitles) THEN 0
    ELSE IF CueActive(subtitles[i], currentTime) THEN i
    ELSE FindCueFrom(subtitles, currentTime, i + 1)

\* The lookup of burnSubtitles.renderFrame and of the preview player.
FindActiveSubtitle ==
    /\ tool = "lookup"
    /\ ~lookup.done
    /\ lookup' = [lookup EXCEPT
                    !.activeSubtitle = FindCueFrom(lookup.subtitles, lookup.currentTime, 1),
                    !.done = TRUE]
    /\ UNCHANGED << jobVars, cueVars, uiVars, tool, buffer, wav, mp3, peaks, merge, wrap >>

\* The current time lies in the closed interval of the cue at index i.
InCue(i) ==
    /\ lookup.subtitles[i].startTime <= lookup.currentTime
    /\ lookup.currentTime <= lookup.subtitles[i].endTime

\* C15: the lookup returns the first cue in list order whose closed interval
\* [startTime, endTime] holds the current time, and none when there is none.
C15_FirstActiveCueInListOrder ==
    (tool = "lookup" /\ lookup.done) =>
        LET a == lookup.activeSubtitle
            n == Len(lookup.subtitles)
        IN  /\ a \in 0..n
            /\ a = 0 => \A i \in 1..n : ~InCue(i)
            /\ a > 0 => (InCue(a) /\ \A i \in 1..(a - 1) : ~InCue(i))

\* C15 witness: in an unsorted list the cue starting at t stands before the
\* cue ending at t, and the lookup at exactly t returned the former.
C15_Witness ==
    /\ tool = "lookup" /\ lookup.done
    /\ Len(lookup.subtitles) >= 2
    /\ lookup.currentTime > 0
    /\ lookup.subtitles[1].startTime = lookup.currentTime
    /\ lookup.subtitles[1].endTime > lookup.currentTime
    /\ lookup.subtitles[2].startTime < lookup.currentTime
    /\ lookup.subtitles[2].endTime = lookup.currentTime
    /\ lookup.activeSubtitle = 1

\* --------------------------------------------------------- drawSubtitleText
\* bounds
MaxWords == 3

\* program constants
MaxWidthTenths == 9

\* The measured widths of a word and of the space between two words.
WordWidths == { 2, 4, 10 }

SpaceWidth == 1

\* The frame widths.
FrameWidths == { 10, 20 }

\* The captions, each the sequence of the measured widths of its words
\* (text.split(/\s+/) gives at least one word).
Captions == UNION { [1..n -> WordWidths] : n \in 1..MaxWords }

\* ctx.measureText(line).width of the line made of the words from..to.
RECURSIVE MeasureText(_, _, _)
MeasureText(words, from, to) ==
    IF from > to THEN 0
    ELSE IF from = to THEN words[to]
    ELSE MeasureText(words, from, to - 1) + SpaceWidth + words[to]

\* metrics.width < maxWidth with maxWidth = width * 0.9.
Fits(measured, width) == 10 * measured < MaxWidthTenths * width

\* The loop from word i on: currentLine is the words from..(i - 1).
RECURSIVE WrapFrom(_, _, _, _, _)
WrapFrom(words, width, lines, from, i) ==
    IF i > Len(words) THEN Append(lines, [from |-> from, to |-> Len(words)])
    ELSE IF Fits(MeasureText(words, from, i), width)
         THEN WrapFrom(words, width, lines, from, i + 1)
         ELSE WrapFrom(words, width, Append(lines, [from |-> from, to |-> i - 1]), i, i + 1)

\* drawSubtitleText: the lines the caption is drawn in.
DrawSubtitleText ==
    /\ tool = "wrap"
    /\ ~wrap.done
    /\ wrap' = [wrap EXCEPT
                  !.lines = WrapFrom(wrap.words, wrap.width, << >>, 1, 2),
                  !.done = TRUE]
    /\ UNCHANGED << jobVars, cueVars, uiVars, tool, buffer, wav, mp3, peaks, merge, lookup >>

\* C18: the lines hold the words in order, none left out, and the measured
\* width of every line is under 90% of the frame width.
C18_EveryLineUnderLimit ==
    (tool = "wrap" /\ wrap.done) =>
        LET n == Len(wrap.lines)
        IN  /\ n >= 1
            /\ wrap.lines[1].from = 1
            /\ wrap.lines[n].to = Len(wrap.words)
            /\ \A k \in 1..(n - 1) : wrap.lines[k + 1].from = wrap.lines[k].to + 1
            /\ \A k \in 1..n :
                  10 * MeasureText(wrap.words, wrap.lines[k].from, wrap.lines[k].to)
                      < 9 * wrap.width

\* ------------------------------------------------------------ time shifts

MaxShiftCues == 2
MaxOffset == 2
MaxShifts == 2

\* The cues the shift tools are given: startTime >= 0 and endTime > startTime.
ValidCue(sub) == sub.startTime >= 0 /\ sub.endTime > sub.startTime

ValidCues == { sub \in Cues : ValidCue(sub) }

ValidCueLists == UNION { [1..n -> ValidCues] : n \in 0..MaxShiftCues }

Offsets == (-MaxOffset)..MaxOffset

\* The map of handleAutoSync, handleApplySync and getShiftedSubtitles.
ShiftCue(sub, offset) ==
    [sub EXCEPT !.startTime = Max(0, sub.startTime + offset),
                !.endTime = Max(0, sub.endTime + offset)]

ShiftAll(subs, offset) == [k \in DOMAIN subs |-> ShiftCue(subs[k], offset)]

\* handleApplySync with the offset of the Sync panel.
HandleApplySync(syncOffset) ==
    /\ tool = "shift"
    /\ shift.shifts < MaxShifts
    /\ syncOffset # 0
    /\ shift' = [shift EXCEPT !.subtitles = ShiftAll(shift.subtitles, syncOffset),
                              !.shifts = shift.shifts + 1]
    /\ UNCHANGED << jobVars, uiVars, tool, buffer, wav, mp3, peaks, merge, lookup, wrap, srt >>

\* handleAutoSync after calculateAutoSyncOffset resolved; offsets are whole
\* seconds here, so only 0 is below the 0.05 s threshold.
HandleAutoSync(offset) ==
    /\ tool = "shift"
    /\ shift.shifts < MaxShifts
    /\ shift.subtitles # << >>
    /\ shift' = IF offset = 0
                THEN [shift EXCEPT !.autoSyncMsg = "Synced (Difference < 0.05s)",
                                   !.shifts = shift.shifts + 1]
                ELSE [shift EXCEPT !.subtitles = ShiftAll(shift.subtitles, offset),
                                   !.autoSyncMsg = "Shifted",
                                   !.shifts = shift.shifts + 1]
    /\ UNCHANGED << jobVars, uiVars, tool, buffer, wav, mp3, peaks, merge, lookup, wrap, srt >>

\* getShiftedSubtitles of SrtTimeShiftTool: the loaded cues stay as they are.
GetShiftedSubtitles(offsetSeconds) ==
    /\ tool = "shift"
    /\ shift.shifts < MaxShifts
    /\ shift' = [shift EXCEPT !.shifted = ShiftAll(shift.subtitles, offsetSeconds),
                              !.shifts = shift.shifts + 1]
    /\ UNCHANGED << jobVars, uiVars, tool, buffer, wav, mp3, peaks, merge, lookup, wrap, srt >>

\* C29: after any sequence of time shifts every cue, which had startTime >= 0
\* and endTime > startTime before, still has both.
C29_ShiftKeepsCuesValid ==
    tool = "shift"
        => /\ \A k \in DOMAIN shift.subtitles : ValidCue(shift.subtitles[k])
           /\ \A k \in DOMAIN shift.shifted : ValidCue(shift.shifted[k])

\* ------------------------------------------------------------ SRT round trip

\* Times are whole quarters of a millisecond, so that a time between two
\* milliseconds exists.
MaxSrtCues == 2
TicksPerMs == 4
TicksPerSecond == 1000 * TicksPerMs
TicksPerMinute == 60 * TicksPerSecond
TicksPerHour == 60 * TicksPerMinute

\* Start and end times in [0, 100 h): on a millisecond, just above and just
\* below one, just below a full second, and the last millisecond of the range.
SrtTimePairs ==
    { << 0, 6000 >>,
      << 1, 3 >>,
      << 6000, 11997 >>,
      << 3999, 6000 >>,
      << TicksPerMinute, (100 * TicksPerHour) - TicksPerMs >> }

\* Cue texts as their lines: non-empty, trimmed, without a blank line; one of
\* them holds an arrow.
SrtTexts == { << "Hello" >>, << "a --> b", "World" >> }

SrtCues ==
    { [startTime |-> p[1], endTime |-> p[2], text |-> t] :
         p \in SrtTimePairs, t \in SrtTexts }

SrtCueLists == UNION { [1..n -> SrtCues] : n \in 0..MaxSrtCues }

RECURSIVE Pow10(_)
Pow10(n) == IF n = 0 THEN 1 ELSE 10 * Pow10(n - 1)

\* pad: the last size characters of '000' + num.
Pad(num, size) == num % Pow10(size)

\* Math.round of a non-negative count of ticks, in milliseconds.
RoundMs(ticks) == (ticks + (TicksPerMs \div 2)) \div TicksPerMs

\* secondsToTime: the four fields of the stamp HH:MM:SS,mmm.
SecondsToTime(seconds) ==
    << Pad(seconds \div TicksPerHour, 2),
       Pad((seconds % TicksPerHour) \div TicksPerMinute, 2),
       Pad((seconds % TicksPerMinute) \div TicksPerSecond, 2),
       Pad(RoundMs(seconds % TicksPerSecond), 3) >>

\* timeToSeconds of a stamp with three fields and three digits of milliseconds.
TimeToSeconds(stamp) ==
    ((stamp[1] * 3600 + stamp[2] * 60 + stamp[3]) * TicksPerSecond)
        + (stamp[4] * TicksPerMs)

TextLines(text) == [k \in DOMAIN text |-> [kind |-> "text", text |-> text[k]]]

\* The block of one cue: index, time line, text.
SrtBlock(sub, index) ==
    << [kind |-> "index", n |-> index],
       [kind |-> "time", start |-> SecondsToTime(sub.startTime),
                         end |-> SecondsToTime(sub.endTime)] >>
        \o TextLines(sub.text)

\* generateSRT: the blocks joined by '\n\n', as a sequence of lines.
RECURSIVE GenerateFrom(_, _)
GenerateFrom(subs, k) ==
    IF k > Len(subs) THEN << >>
    ELSE SrtBlock(subs[k], k)
            \o (IF k < Len(subs) THEN << [kind |-> "blank"] >> ELSE << >>)
            \o GenerateFrom(subs, k + 1)

GenerateSRTLines(subs) == GenerateFrom(subs, 1)

\* split(/\n\s*\n/): the runs of lines between blank lines.
RECURSIVE SplitBlocks(_, _, _)
SplitBlocks(lines, k, block) ==
    IF k > Len(lines) THEN << block >>
    ELSE IF lines[k].kind = "blank"
         THEN << block >> \o SplitBlocks(lines, k + 1, << >>)
         ELSE SplitBlocks(lines, k + 1, Append(block, lines[k]))

IncludesArrow(line) ==
    \/ line.kind = "time"
    \/ line.kind = "text" /\ line.text = "a --> b"

\* findIndex(line => line.includes('-->')), 0 for -1.
TimeLineIndex(block) ==
    IF \E k \in DOMAIN block : IncludesArrow(block[k])
    THEN CHOOSE k \in DOMAIN block :
            /\ IncludesArrow(block[k])
            /\ \A j \in 1..(k - 1) : ~IncludesArrow(block[j])
    ELSE 0

LineTexts(lines) ==
    [k \in DOMAIN lines |-> IF lines[k].kind = "text" THEN lines[k].text ELSE "-"]

\* parseSRT, the body of blocks.forEach for one block.
ParseBlock(block, subtitles) ==
    LET i == TimeLineIndex(block)
        text == LineTexts(SubSeq(block, i + 1, Len(block)))
    IN  IF i # 0 /\ block[i].kind = "time" /\ text # << >>
        THEN Append(subtitles, [id |-> Len(subtitles) + 1,
                                startTime |-> TimeToSeconds(block[i].start),
                                endTime |-> TimeToSeconds(block[i].end),
                                text |-> text])
        ELSE subtitles

RECURSIVE ParseBlocks(_, _, _)
ParseBlocks(blocks, k, subtitles) ==
    IF k > Len(blocks) THEN subtitles
    ELSE ParseBlocks(blocks, k + 1, ParseBlock(blocks[k], subtitles))

ParseSRTLines(lines) == ParseBlocks(SplitBlocks(lines, 1, << >>), 1, << >>)

GenerateSRT ==
    /\ tool = "srt"
    /\ srt.stage = "cues"
    /\ srt' = [srt EXCEPT !.content = GenerateSRTLines(srt.subtitles),
                          !.stage = "generated"]
    /\ UNCHANGED << jobVars, uiVars, tool, buffer, wav, mp3, peaks, merge, lookup, wrap, shift >>

ParseSRT ==
    /\ tool = "srt"
    /\ srt.stage = "generated"
    /\ srt' = [srt EXCEPT !.parsed = ParseSRTLines(srt.content),
                          !.stage = "parsed"]
    /\ UNCHANGED << jobVars, uiVars, tool, buffer, wav, mp3, peaks, merge, lookup, wrap, shift >>

\* C30: parseSRT(generateSRT(cues)) has the cues of the list in their order,
\* each with its text and with its times rounded to the nearest millisecond.
C30_SrtRoundTrip ==
    (tool = "srt" /\ srt.stage = "parsed")
        => /\ Len(srt.parsed) = Len(srt.subtitles)
           /\ \A k \in DOMAIN srt.subtitles :
                 /\ srt.parsed[k].text = srt.subtitles[k].text
                 /\ srt.parsed[k].startTime
                       = RoundMs(srt.subtitles[k].startTime) * TicksPerMs
                 /\ srt.parsed[k].endTime
                       = RoundMs(srt.subtitles[k].endTime) * TicksPerMs

\* ------------------------------------------------------ tool specification
\* No render-capture job exists while a tool function is followed.
JobIdle ==
    /\ kind = "none"
    /\ supported = {}
    /\ ctxOk = FALSE
    /\ startTime = 0
    /\ endTime = 0
    /\ targetFormat = ""
    /\ video = [duration |-> 0, currentTime |-> 0, loaded |-> FALSE,
                paused |-> TRUE, ended |-> FALSE, seeking |-> FALSE, error |-> FALSE]
    /\ interrupted = FALSE
    /\ pauses = 0
    /\ canvas = FALSE
    /\ drawn = {}
    /\ stream = "none"
    /\ selectedMimeType = ""
    /\ ctorMime = ""
    /\ recorder = "none"
    /\ starts = 0
    /\ encoderFailed = FALSE
    /\ threw = FALSE
    /\ chunks = 0
    /\ promise = "pending"
    /\ error = NoError
    /\ blob = NoBlob
    /\ pending = {}
    /\ released = 0
    /\ progressLog = << >>
    /\ calls = << >>
    /\ frameTime = -1
    /\ seekDone = FALSE

\* One call of one tool function, on one of its inputs.
ToolInit ==
    /\ JobIdle
    /\ tool \in { "wav", "mp3", "peaks", "merge", "lookup", "wrap", "shift",
                 "srt" }
    /\ buffer \in (CASE tool = "wav" -> Buffers(0..MaxFrames, 0..(Len(Samples) - 1))
                     [] tool = "mp3" -> Buffers(BlockLengths, { 0 })
                     [] tool = "peaks" ->
                          Buffers(PeakLengths, 0..1)
                     [] OTHER -> { NoBuffer })
    /\ wav = NoWav
    /\ mp3 = NoMp3
    /\ peaks = NoPeaks
    /\ merge \in (IF tool = "merge"
                  THEN { [NoMerge EXCEPT !.tracks = t, !.deviceRate = r] :
                            t \in TrackLists, r \in DeviceRates }
                  ELSE { NoMerge })
    /\ lookup \in (IF tool = "lookup"
                   THEN { [NoLookup EXCEPT !.subtitles = l, !.currentTime = t] :
                             l \in CueLists, t \in 0..MaxCueTime }
                   ELSE { NoLookup })
    /\ wrap \in (IF tool = "wrap"
                 THEN { [NoWrap EXCEPT !.words = c, !.width = w] :
                           c \in Captions, w \in FrameWidths }
                 ELSE { NoWrap })
    /\ shift \in (IF tool = "shift"
                  THEN { [NoShift EXCEPT !.subtitles = l] : l \in ValidCueLists }
                  ELSE { NoShift })
    /\ srt \in (IF tool = "srt"
                THEN { [NoSrt EXCEPT !.subtitles = l, !.stage = "cues"] :
                          l \in SrtCueLists }
                ELSE { NoSrt })
    /\ UiIdle

ToolNext ==
    \/ AudioBufferToWav
    \/ EncodeBlock
    \/ FlushEncoder
    \/ ComputePeaks
    \/ HandleMerge
    \/ FindActiveSubtitle
    \/ DrawSubtitleText
    \/ \E offset \in Offsets : HandleApplySync(offset)
    \/ \E offset \in Offsets : HandleAutoSync(offset)
    \/ \E offset \in Offsets : GetShiftedSubtitles(offset)
    \/ GenerateSRT
    \/ ParseSRT

ToolSpec == ToolInit /\ [][ToolNext]_vars

\* ---------------------------------------------------------------------------
\* Components of the user interface
\* ---------------------------------------------------------------------------

fnVars == << buffer, wav, mp3, peaks, merge, lookup, wrap, cueVars >>

\* VideoTrimmerTool ----------------------------------------------------------

MaxSelections == 2

\* handleFileSelect: the upload view is rendered only while file is null.
\* The previous result, range and error are reset; isProcessing is not.
VideoHandleFileSelect ==
    /\ tool = "videoTrimmer"
    /\ trimmer.file = 0
    /\ trimmer.selections < MaxSelections
    /\ trimmer' = [trimmer EXCEPT !.file = trimmer.selections + 1,
                                  !.selections = trimmer.selections + 1,
                                  !.trimmedBlob = 0,
                                  !.endTime = 0,
                                  !.error = FALSE]
    /\ UNCHANGED << jobVars, tool, fnVars, player, waveform, selection, request >>

\* handleLoadedMetadata of the preview: endTime becomes the duration.
VideoHandleLoadedMetadata ==
    /\ tool = "videoTrimmer"
    /\ trimmer.file # 0
    /\ trimmer.endTime = 0
    /\ trimmer' = [trimmer EXCEPT !.endTime = 1]
    /\ UNCHANGED << jobVars, tool, fnVars, player, waveform, selection, request >>

\* "Change File": setFile(null); setVideoUrl(null). The button is never
\* disabled and touches neither trimmedBlob nor a running job.
VideoChangeFile ==
    /\ tool = "videoTrimmer"
    /\ trimmer.file # 0
    /\ trimmer' = [trimmer EXCEPT !.file = 0]
    /\ UNCHANGED << jobVars, tool, fnVars, player, waveform, selection, request >>

\* handleTrim up to its await: the button is rendered while trimmedBlob is
\* null and enabled while not processing and startTime < endTime.
VideoHandleTrim ==
    /\ tool = "videoTrimmer"
    /\ trimmer.file # 0
    /\ trimmer.trimmedBlob = 0
    /\ ~trimmer.isProcessing
    /\ trimmer.endTime > 0
    /\ trimmer' = [trimmer EXCEPT !.isProcessing = TRUE,
                                  !.error = FALSE,
                                  !.job = trimmer.file]
    /\ UNCHANGED << jobVars, tool, fnVars, player, waveform, selection, request >>

\* handleTrim after the await, trimVideo resolved: setTrimmedBlob(blob) and
\* the finally block, whatever file is selected by now.
VideoTrimResolves ==
    /\ tool = "videoTrimmer"
    /\ trimmer.job # 0
    /\ trimmer' = [trimmer EXCEPT !.trimmedBlob = trimmer.job,
                                  !.isProcessing = FALSE,
                                  !.job = 0]
    /\ UNCHANGED << jobVars, tool, fnVars, player, waveform, selection, request >>

\* handleTrim after the await, trimVideo rejected: catch and finally.
VideoTrimRejects ==
    /\ tool = "videoTrimmer"
    /\ trimmer.job # 0
    /\ trimmer' = [trimmer EXCEPT !.error = TRUE,
                                  !.isProcessing = FALSE,
                                  !.job = 0]
    /\ UNCHANGED << jobVars, tool, fnVars, player, waveform, selection, request >>

\* C23: whenever a file is selected and trimmedBlob is non-null, the blob was
\* produced from that file; a result of a job on an earlier file is never
\* offered under the new file.
C23_TrimmedBlobOfSelectedFile ==
    (tool = "videoTrimmer" /\ trimmer.file # 0 /\ trimmer.trimmedBlob # 0)
        => trimmer.trimmedBlob = trimmer.file

\* AudioTrimmerTool: playback ------------------------------------------------

MaxNodes == 2
MaxPlayTime == 2

\* stopPlayback: stop() and forget the referenced node, clear the playing
\* state, cancel the animation frame rafRef holds. The stopped node will still
\* dispatch 'ended'.
StoppedPlayer(p) ==
    [p EXCEPT !.nodes = [n \in DOMAIN p.nodes |->
                            IF n = p.sourceNode /\ p.nodes[n] = "playing"
                            THEN "stopped" ELSE p.nodes[n]],
              !.sourceNode = 0,
              !.isPlaying = FALSE,
              !.raf = 0]

\* togglePlayback while not playing: startPlayback creates and starts a node,
\* stores it, sets the playing state and requests the animation loop.
StartPlayback ==
    /\ tool = "playback"
    /\ ~player.isPlaying
    /\ Len(player.nodes) < MaxNodes
    /\ player' = [player EXCEPT !.nodes = Append(player.nodes, "playing"),
                                !.sourceNode = Len(player.nodes) + 1,
                                !.isPlaying = TRUE,
                                !.raf = Len(player.nodes) + 1]
    /\ UNCHANGED << jobVars, tool, fnVars, trimmer, waveform, selection, request >>

\* togglePlayback while playing.
StopPlayback ==
    /\ tool = "playback"
    /\ player.isPlaying
    /\ player' = StoppedPlayer(player)
    /\ UNCHANGED << jobVars, tool, fnVars, trimmer, waveform, selection, request >>

\* animate, now < endTime: the play head moves and the loop is requested again.
Animate ==
    /\ tool = "playback"
    /\ player.raf # 0
    /\ player.currentTime < MaxPlayTime
    /\ player' = [player EXCEPT !.currentTime = player.currentTime + 1]
    /\ UNCHANGED << jobVars, tool, fnVars, trimmer, waveform, selection, request >>

\* animate, now >= endTime: stopPlayback and the play head returns to the
\* selection start.
AnimateAtEnd ==
    /\ tool = "playback"
    /\ player.raf # 0
    /\ player' = [StoppedPlayer(player) EXCEPT !.currentTime = 0]
    /\ UNCHANGED << jobVars, tool, fnVars, trimmer, waveform, selection, request >>

\* source.onended of node n, after it played to its end or after stop(): the
\* handler clears the playing state and cancels the frame rafRef holds now.
NodeEnded(n) ==
    /\ tool = "playback"
    /\ n \in DOMAIN player.nodes
    /\ player.nodes[n] \in { "playing", "stopped" }
    /\ player' = [player EXCEPT !.nodes[n] = "ended",
                                !.isPlaying = FALSE,
                                !.raf = 0]
    /\ UNCHANGED << jobVars, tool, fnVars, trimmer, waveform, selection, request >>

LatestNodePlaying ==
    /\ player.nodes # << >>
    /\ player.nodes[Len(player.nodes)] = "playing"

\* C24: isPlaying is true exactly while the most recently started source node
\* is playing, and while it plays its animation loop stays requested: the
\* 'ended' callback of an earlier, stopped node clears neither.
C24_PlayingIffLatestNodePlays ==
    tool = "playback"
        => /\ player.isPlaying <=> LatestNodePlaying
           /\ LatestNodePlaying => player.raf = Len(player.nodes)

\* AudioTrimmerTool and WaveformTimeline: the cached peak envelope ------------

MaxRefs == 2
MaxView == 1

PeaksEffectEveryRender(w) == TRUE

\* The dependency array of the peaks effect: [audioBuffer], [file].
PeaksEffectDue(w) == w.dep # w.ref

\* AudioTrimmerTool, the render after a handler: the peaks effect runs when
\* its dependency changed, clears the envelope for a null buffer and computes
\* it from the buffer otherwise.
AudioPeaksEffect(w) ==
    IF ~PeaksEffectDue(w) THEN w
    ELSE IF w.ref = 0 THEN [w EXCEPT !.dep = 0, !.waveformPeaks = 0]
    ELSE [w EXCEPT !.dep = w.ref,
                   !.waveformPeaks = w.ref,
                   !.computed[w.ref] = w.computed[w.ref] + 1]

\* WaveformTimeline, the render after a handler: the effect clears the
\* envelope for a null file and starts decodeAudio otherwise.
TimelineEffect(w) ==
    IF ~PeaksEffectDue(w) THEN w
    ELSE IF w.ref = 0 THEN [w EXCEPT !.dep = 0, !.waveformPeaks = 0]
    ELSE [w EXCEPT !.dep = w.ref, !.decoding = w.decoding \cup { w.ref }]

\* handleFileSelect after decodeAudioData: a new buffer, the full range, the
\* play head at 0.
AudioBufferDecoded ==
    /\ tool = "audioWaveform"
    /\ waveform.loads < MaxRefs
    /\ waveform' = AudioPeaksEffect([waveform EXCEPT
                        !.ref = waveform.loads + 1,
                        !.loads = waveform.loads + 1,
                        !.computed = Append(waveform.computed, 0),
                        !.view = 0])
    /\ UNCHANGED << jobVars, tool, fnVars, trimmer, player, selection, request >>

\* The close button: setAudioBuffer(null); setWaveformPeaks(null).
AudioClose ==
    /\ tool = "audioWaveform"
    /\ waveform.ref # 0
    /\ waveform' = AudioPeaksEffect([waveform EXCEPT !.ref = 0, !.waveformPeaks = 0])
    /\ UNCHANGED << jobVars, tool, fnVars, trimmer, player, selection, request >>

\* A redraw trigger: play head, selection or width changes and drawWaveform
\* runs on the cached envelope.
AudioRedraw ==
    /\ tool = "audioWaveform"
    /\ waveform.view < MaxView
    /\ waveform' = AudioPeaksEffect([waveform EXCEPT !.view = waveform.view + 1])
    /\ UNCHANGED << jobVars, tool, fnVars, trimmer, player, selection, request >>

\* The parent passes another file.
TimelineFile ==
    /\ tool = "timeline"
    /\ waveform.loads < MaxRefs
    /\ waveform' = TimelineEffect([waveform EXCEPT
                        !.ref = waveform.loads + 1,
                        !.loads = waveform.loads + 1,
                        !.computed = Append(waveform.computed, 0)])
    /\ UNCHANGED << jobVars, tool, fnVars, trimmer, player, selection, request >>

\* The parent passes null.
TimelineNoFile ==
    /\ tool = "timeline"
    /\ waveform.ref # 0
    /\ waveform' = TimelineEffect([waveform EXCEPT !.ref = 0])
    /\ UNCHANGED << jobVars, tool, fnVars, trimmer, player, selection, request >>

\* decodeAudio after its awaits: the envelope of file f is computed and stored.
TimelineDecoded(f) ==
    /\ tool = "timeline"
    /\ f \in waveform.decoding
    /\ waveform' = TimelineEffect([waveform EXCEPT
                        !.decoding = waveform.decoding \ { f },
                        !.waveformPeaks = f,
                        !.computed[f] = waveform.computed[f] + 1])
    /\ UNCHANGED << jobVars, tool, fnVars, trimmer, player, selection, request >>

\* decodeAudio, an await rejected: the error is logged.
TimelineDecodeFailed(f) ==
    /\ tool = "timeline"
    /\ f \in waveform.decoding
    /\ waveform' = TimelineEffect([waveform EXCEPT
                        !.decoding = waveform.decoding \ { f }])
    /\ UNCHANGED << jobVars, tool, fnVars, trimmer, player, selection, request >>

\* A redraw trigger: play head, cues, hover or width change and draw runs on
\* the cached envelope.
TimelineRedraw ==
    /\ tool = "timeline"
    /\ waveform.view < MaxView
    /\ waveform' = TimelineEffect([waveform EXCEPT !.view = waveform.view + 1])
    /\ UNCHANGED << jobVars, tool, fnVars, trimmer, player, selection, request >>

CacheChanges ==
    \/ waveform'.computed # waveform.computed
    \/ waveform'.waveformPeaks # waveform.waveformPeaks

CachedOnce ==
    /\ tool \in { "audioWaveform", "timeline" } =>
          \A r \in DOMAIN waveform'.computed : waveform'.computed[r] <= 1
    /\ (tool = "audioWaveform" /\ waveform'.ref # 0) =>
          /\ waveform'.computed[waveform'.ref] = 1
          /\ waveform'.waveformPeaks = waveform'.ref
    /\ (waveform'.view # waveform.view /\ waveform'.ref = waveform.ref)
          => ~CacheChanges
    /\ CacheChanges =>
          \/ waveform'.ref # waveform.ref
          \/ waveform'.decoding # waveform.decoding

\* C26: the envelope is computed at most once per buffer or file reference
\* and, in AudioTrimmerTool, exactly once for the loaded buffer; a redraw
\* trigger leaves the cached envelope alone; the envelope is computed or
\* cleared only in a step that changes the reference or completes the decode
\* that a change of reference started.
C26_PeaksComputedOncePerReference ==
    [][CachedOnce]_vars

C26_Witness ==
    /\ tool = "audioWaveform"
    /\ waveform.ref = MaxRefs
    /\ waveform.waveformPeaks = waveform.ref
    /\ waveform.computed[waveform.ref] = 1
    /\ waveform.view > 0

\* AudioTrimmerTool: the selection --------------------------------------------

MaxBufferTenths == 3
MinSelectionTenths == 1
TenthsPerSecond == 10
SampleRates == { 8000, 44100 }
GrabThresholds == { 1, 2 }

Abs(a) == IF a < 0 THEN -a ELSE a

\* handleFileSelect after decodeAudioData: the full range is selected.
SelectionLoaded(d, rate) ==
    /\ tool = "selection"
    /\ selection.duration = 0
    /\ selection' = [selection EXCEPT !.duration = d, !.sampleRate = rate,
                                      !.startTime = 0, !.endTime = d]
    /\ UNCHANGED << jobVars, tool, fnVars, trimmer, player, waveform, request >>

\* handlePointerDown at clickTime with a grab threshold of 15 px: the start
\* handle, else the end handle, else a seek.
HandlePointerDown(clickTime, thresholdSec) ==
    /\ tool = "selection"
    /\ selection.duration > 0
    /\ selection.dragTarget = "none"
    /\ selection' = [selection EXCEPT !.dragTarget =
            IF Abs(clickTime - selection.startTime) < thresholdSec THEN "start"
            ELSE IF Abs(clickTime - selection.endTime) < thresholdSec THEN "end"
            ELSE "seek"]
    /\ UNCHANGED << jobVars, tool, fnVars, trimmer, player, waveform, request >>

\* handlePointerMove at a time inside the container.
HandlePointerMove(time) ==
    /\ tool = "selection"
    /\ selection.duration > 0
    /\ selection.dragTarget # "none"
    /\ selection' =
          CASE selection.dragTarget = "start" ->
                 [selection EXCEPT !.startTime =
                     Max(0, Min(time, selection.endTime - MinSelectionTenths))]
            [] selection.dragTarget = "end" ->
                 [selection EXCEPT !.endTime =
                     Min(selection.duration,
                         Max(time, selection.startTime + MinSelectionTenths))]
            [] OTHER -> selection
    /\ UNCHANGED << jobVars, tool, fnVars, trimmer, player, waveform, request >>

HandlePointerUp ==
    /\ tool = "selection"
    /\ selection.dragTarget # "none"
    /\ selection' = [selection EXCEPT !.dragTarget = "none"]
    /\ UNCHANGED << jobVars, tool, fnVars, trimmer, player, waveform, request >>

\* onChange of the Start input.
StartEdited(value) ==
    /\ tool = "selection"
    /\ selection.duration > 0
    /\ selection' = [selection EXCEPT !.startTime =
                        Max(0, Min(value, selection.endTime))]
    /\ UNCHANGED << jobVars, tool, fnVars, trimmer, player, waveform, request >>

\* onChange of the End input.
EndEdited(value) ==
    /\ tool = "selection"
    /\ selection.duration > 0
    /\ selection' = [selection EXCEPT !.endTime =
                        Min(selection.duration, Max(value, selection.startTime))]
    /\ UNCHANGED << jobVars, tool, fnVars, trimmer, player, waveform, request >>

FrameCount(s) ==
    ((s.endTime * s.sampleRate) \div TenthsPerSecond)
        - ((s.startTime * s.sampleRate) \div TenthsPerSecond)

\* handleTrim up to the creation of the new buffer.
SelectionTrim ==
    /\ tool = "selection"
    /\ selection.duration > 0
    /\ selection' = [selection EXCEPT
            !.frameCount = FrameCount(selection),
            !.error = IF FrameCount(selection) <= 0
                      THEN "Invalid selection range" ELSE ""]
    /\ UNCHANGED << jobVars, tool, fnVars, trimmer, player, waveform, request >>

\* C27: once a buffer of duration D > 0 is loaded, drags and numeric edits
\* keep 0 <= startTime < endTime <= D, and Trim Audio never meets a frame
\* count that is not positive.
C27_SelectionNonEmptyInBounds ==
    (tool = "selection" /\ selection.duration > 0)
        => /\ 0 <= selection.startTime
           /\ selection.startTime < selection.endTime
           /\ selection.endTime <= selection.duration
           /\ selection.error = ""

\* generateSubtitlesFromVideo: the attempts -----------------------------------

MaxAttempts == 3

\* What an attempt can throw: an error of the service call (origin "service",
\* its status, 0 when it has none) or of the handling of a delivered response
\* (origin "parse": JSON.parse, the array check). has500 says that the message
\* contains '500', network that it contains one of the network or payload
\* markers ('xhr error', 'rpc failed', 'fetch', 'networkerror', '413').
Statuses == { 0, 413, 429, 500, 503 }
ServiceErrors ==
    [origin : { "service" }, status : Statuses, has500 : BOOLEAN, network : BOOLEAN]
ParseErrors ==
    [origin : { "parse" }, status : { 0 }, has500 : BOOLEAN, network : BOOLEAN]

IsNetworkOrPayloadError(e) == e.network \/ e.status = 413

IsServerErr(e) == e.has500 \/ e.status = 500 \/ e.status = 503

\* The call enters the loop and issues the request of attempt 0.
GenerateSubtitles ==
    /\ tool = "subtitles"
    /\ request.state = "idle"
    /\ request' = [request EXCEPT !.state = "requested", !.requests = 1]
    /\ UNCHANGED << jobVars, tool, fnVars, trimmer, player, waveform, selection >>

\* The response has no text, or its text parses into cues: the call returns.
ResponseReturned(text) ==
    /\ tool = "subtitles"
    /\ request.state = "requested"
    /\ request' = [request EXCEPT !.state = "returned", !.result = text]
    /\ UNCHANGED << jobVars, tool, fnVars, trimmer, player, waveform, selection >>

\* The attempt throws e: the catch block rethrows a network or payload
\* error, waits before the next attempt after a server error, and breaks
\* otherwise; the outer catch rewrites the message of a payload error.
AttemptFailed(e) ==
    /\ tool = "subtitles"
    /\ request.state = "requested"
    /\ request' =
          IF IsNetworkOrPayloadError(e)
          THEN [request EXCEPT !.state = "thrown", !.lastError = e,
                               !.result = "File is too large for the API."]
          ELSE IF IsServerErr(e) /\ request.attempt < MaxAttempts - 1
          THEN [request EXCEPT !.state = "delay", !.lastError = e]
          ELSE [request EXCEPT !.state = "thrown", !.lastError = e,
                               !.result = "lastError"]
    /\ UNCHANGED << jobVars, tool, fnVars, trimmer, player, waveform, selection >>

\* The delay elapsed: continue, the next attempt issues its request; retried
\* keeps the error this request follows.
DelayElapsed ==
    /\ tool = "subtitles"
    /\ request.state = "delay"
    /\ request' = [request EXCEPT !.state = "requested",
                                  !.attempt = request.attempt + 1,
                                  !.retried = request.lastError,
                                  !.requests = request.requests + 1]
    /\ UNCHANGED << jobVars, tool, fnVars, trimmer, player, waveform, selection >>

\* The previous request failed with a server error: the service answered 500
\* or 503, or failed without a status and with '500' in its message.
ServerError(e) ==
    /\ e.origin = "service"
    /\ e.status \in { 500, 503 } \/ (e.status = 0 /\ e.has500)

\* C28: one call issues at most 3 requests, and a request after the first is
\* issued only after the previous one failed with a server error.
C28_RetryOnlyAfterServerError ==
    tool = "subtitles"
        => /\ request.requests <= 3
           /\ request.requests > 1 => ServerError(request.retried)
           /\ request.state = "delay" => ServerError(request.lastError)

\* Specification of the components ------------------------------------------

\* One mounted component, in the state its first render leaves it in.
UiInit ==
    /\ JobIdle
    /\ tool \in { "videoTrimmer", "playback", "audioWaveform", "timeline",
                 "selection", "subtitles" }
    /\ buffer = NoBuffer
    /\ wav = NoWav
    /\ mp3 = NoMp3
    /\ peaks = NoPeaks
    /\ merge = NoMerge
    /\ lookup = NoLookup
    /\ wrap = NoWrap
    /\ shift = NoShift
    /\ srt = NoSrt
    /\ trimmer = NoTrimmer
    /\ player = NoPlayer
    /\ waveform = NoWaveform
    /\ selection = NoSelection
    /\ request = NoRequest

UiNext ==
    \/ VideoHandleFileSelect
    \/ VideoHandleLoadedMetadata
    \/ VideoChangeFile
    \/ VideoHandleTrim
    \/ VideoTrimResolves
    \/ VideoTrimRejects
    \/ StartPlayback
    \/ StopPlayback
    \/ Animate
    \/ AnimateAtEnd
    \/ \E n \in 1..MaxNodes : NodeEnded(n)
    \/ AudioBufferDecoded
    \/ AudioClose
    \/ AudioRedraw
    \/ TimelineFile
    \/ TimelineNoFile
    \/ \E f \in 1..MaxRefs : TimelineDecoded(f)
    \/ \E f \in 1..MaxRefs : TimelineDecodeFailed(f)
    \/ TimelineRedraw
    \/ \E d \in 1..MaxBufferTenths, rate \in SampleRates : SelectionLoaded(d, rate)
    \/ \E t \in 0..MaxBufferTenths, thr \in GrabThresholds :
          t <= selection.duration /\ HandlePointerDown(t, thr)
    \/ \E t \in 0..MaxBufferTenths : t <= selection.duration /\ HandlePointerMove(t)
    \/ HandlePointerUp
    \/ \E v \in -1..(MaxBufferTenths + 1) : StartEdited(v)
    \/ \E v \in -1..(MaxBufferTenths + 1) : EndEdited(v)
    \/ SelectionTrim
    \/ GenerateSubtitles
    \/ \E text \in { "[]", "subtitles" } : ResponseReturned(text)
    \/ \E e \in ServiceErrors \cup ParseErrors : AttemptFailed(e)
    \/ DelayElapsed

UiSpec == UiInit /\ [][UiNext]_vars

====
